---- MODULE Spec2Model ----
(***************************************************************************)
(* Contact lifecycle engine of bimoi: ContactService over the in-memory    *)
(* ContactRepository or over the graph-backed one (backend), with an       *)
(* optional identity resolver.                                             *)
(*                                                                         *)
(* Strings are sequences of one-character strings, so that strip(),        *)
(* lower(), concatenation and phone normalisation are computed and not     *)
(* assumed.  Python None is the value None below.  Ids are uuid4 strings,   *)
(* which never repeat: the n-th pending id is n, the m-th Person built by  *)
(* submit_context has id PersonBase + m and its context CtxBase + m; NoId  *)
(* is a None id and EmptyId the empty string "".                           *)
(* The in-memory records carry no timestamps (no modelled code reads       *)
(* them); a graph node's created_at, which orders list_all, is the rank of *)
(* its creation.                                                           *)
(***************************************************************************)
EXTENDS Integers, Sequences, FiniteSets, TLC

VARIABLES
    pending_id,        \* ContactService._pending_id (NoId when None)
    pending_card,      \* ContactService._pending_card (NoCard when None)
    resolver,          \* ContactService._resolve_existing_person_id
    by_id,             \* InMemoryContactRepository._by_id, in insertion order
    order,             \* InMemoryContactRepository._order
    contact_names,     \* InMemoryContactRepository._contact_names
    backend,           \* which ContactRepository the service was given
    nodes,             \* the graph's Person nodes, in creation order
    knows,             \* the graph's KNOWS relationships, in creation order
    n_pending,         \* number of pending ids drawn (uuid4) so far
    n_persons,         \* number of Person ids drawn (uuid4) so far
    n_appends,         \* number of successful append_context calls
    call,              \* the operation last called, the id and the text passed
    ret,               \* what that operation returned
    replaced,          \* history: pending ids dropped by a later Pending card
    consumed,          \* history: pending ids for which Created was returned
    listed_before,     \* history: what list_contacts returned before the last
                       \* add_context (<<>> after any other call)
    repo_accessed,     \* history: did the last call reach a self._repo call?
    resolving,         \* get_or_create_user_id: each caller's position and locals
    returns,           \* history: what the get_or_create_user_id calls returned
    n_resolves,        \* number of get_or_create_user_id calls made so far
    sequential,        \* history: no two get_or_create_user_id calls overlapped
    pending_by_chat,   \* main._pending_by_chat: chat_id -> pending_id
    pending_add_context_by_chat,   \* main._pending_add_context_by_chat
    pending_add_context_file,      \* the same entries in pending_add_context.json
    added_by,          \* history: the person ids each user_id's repository stored
    view_before,       \* history: what each repository answered before the call
    machine,           \* the transition table run_xstate_flow is given
    session,           \* the state and slots the caller keeps between steps
    step,              \* run_xstate_flow's locals, and what it was given
    flow,              \* the flow document run_flow is given
    state,             \* the node id and slots run_flow's caller keeps
    run                \* run_flow's locals, and what it was given

vars == <<pending_id, pending_card, resolver, by_id, order, contact_names,
          backend, nodes, knows,
          n_pending, n_persons, n_appends, call, ret, replaced, consumed,
          listed_before, repo_accessed,
          resolving, returns, n_resolves, sequential,
          pending_by_chat, pending_add_context_by_chat,
          pending_add_context_file, added_by, view_before,
          machine, session, step, flow, state, run>>

\* What the ContactService and its repositories own, the graph's nodes apart.
service_vars == <<pending_id, pending_card, resolver, by_id, order,
                  contact_names, backend, knows, n_pending, n_persons,
                  n_appends, call, ret, replaced, consumed, listed_before,
                  repo_accessed>>

\* What the get_or_create_user_id calls own, the graph's nodes apart.
identity_vars == <<resolving, returns, n_resolves, sequential>>

\* What the Telegram webhook keeps per chat.
webhook_vars == <<pending_by_chat, pending_add_context_by_chat,
                  pending_add_context_file>>

\* What a second repository over the same graph adds.
owners_vars == <<added_by, view_before>>

\* What the flow runner and its caller own.
flow_vars == <<machine, session, step>>

\* What the node-graph runner and its caller own.
graph_vars == <<flow, state, run>>

\* Everything but the graph's Person nodes and the last call and answer.
profile_frame == <<pending_id, pending_card, resolver, by_id, order,
                   contact_names, backend, knows, n_pending, n_persons,
                   n_appends, replaced, consumed, listed_before,
                   repo_accessed, identity_vars, webhook_vars, owners_vars,
                   flow_vars, graph_vars>>

\* What the layers around the service own.
outer_vars == <<webhook_vars, owners_vars, flow_vars, graph_vars>>

---------------------------------------------------------------------------
(* Bounds of the model. *)

MaxCards == 2

MaxAppends == 1

\* Concurrent callers of get_or_create_user_id, and calls they make in all.
MaxCallers == 2

MaxResolves == 3

\* Chats (conversations) one owner talks to the bot in.
MaxChats == 2

\* Persons added through the repositories of two owners.
MaxAdds == 1

---------------------------------------------------------------------------
(* Python values. *)

None == <<"None">>

NoId == 0

EmptyId == -1

PersonBase == 10

CtxBase == 20

ExistingId == 100

WrongId == 99

NoCard == [name |-> None, phone_number |-> None, telegram_user_id |-> None]

IsSpace(c) == c \in {" ", "\n"}

RECURSIVE lstrip(_)
lstrip(s) ==
    IF s = <<>> THEN <<>>
    ELSE IF IsSpace(Head(s)) THEN lstrip(Tail(s)) ELSE s

RECURSIVE rstrip(_)
rstrip(s) ==
    IF s = <<>> THEN <<>>
    ELSE IF IsSpace(s[Len(s)]) THEN rstrip(SubSeq(s, 1, Len(s) - 1)) ELSE s

\* str.strip()
strip(s) == rstrip(lstrip(s))

\* Python truthiness of an Optional[str]
Truthy(s) == s # None /\ s # <<>>

\* (x or d)
OrElse(x, d) == IF Truthy(x) THEN x ELSE d

LowerChar(c) ==
    CASE c = "X" -> "x"
      [] c = "Y" -> "y"
      [] OTHER -> c

\* A lower() that folds no letter.
lower_identity(s) == s

\* str.lower()
lower(s) == [i \in 1..Len(s) |-> LowerChar(s[i])]

\* needle in hay
Contains(needle, hay) ==
    \E i \in 1..(Len(hay) - Len(needle) + 1) :
        SubSeq(hay, i, i + Len(needle) - 1) = needle

---------------------------------------------------------------------------
(* Phone normalisation: phonenumbers.parse / is_valid_number /             *)
(* format_number(E164) as normalize_phone uses them with                   *)
(* default_region = None.                                                  *)

IsDigit(c) == c \in {"0", "1", "2", "3", "4", "5", "6", "7", "8", "9"}

RECURSIVE Digits(_)
Digits(s) ==
    IF s = <<>> THEN <<>>
    ELSE IF IsDigit(Head(s)) THEN <<Head(s)>> \o Digits(Tail(s))
    ELSE Digits(Tail(s))

\* The national numbers (with country code) that are valid numbers.
ValidNumbers == { <<"1", "2">>, <<"3">> }

\* phonenumbers.parse(raw, None): without a region the number must carry a
\* leading "+"; punctuation and spaces are dropped.  None on a parse error.
phonenumbers_parse(raw) ==
    IF raw # <<>> /\ Head(raw) = "+" /\ Digits(raw) # <<>>
    THEN Digits(raw) ELSE None

normalize_phone(raw) ==
    IF ~Truthy(raw) \/ strip(raw) = <<>> THEN None
    ELSE LET parsed == phonenumbers_parse(strip(raw)) IN
         IF parsed = None THEN None
         ELSE IF parsed \notin ValidNumbers THEN None
         ELSE <<"+">> \o parsed

normalize_telegram_id(value) ==
    IF value = None THEN None
    ELSE OrElse(strip(value), None)

---------------------------------------------------------------------------
(* Domain entities. *)

\* RelationshipContext.__post_init__ : description must be non-empty.
RelationshipContextValid(description) ==
    Truthy(description) /\ strip(description) # <<>>

\* Person.__post_init__ as ContactService meets it: name must be non-empty.
PersonValid(name) == Truthy(name) /\ strip(name) # <<>>

MkContext(cid, description) == [id |-> cid, description |-> description]

MkPerson(pid, name, phone, ext, ctx) ==
    [id |-> pid, name |-> name, phone_number |-> phone,
     external_id |-> ext, relationship_context |-> ctx]

\* "no Person": what get_by_id and find_duplicate return for None.
NoPerson == MkPerson(NoId, None, None, None, MkContext(NoId, None))

---------------------------------------------------------------------------
(* InMemoryContactRepository. *)

Ids(persons) == { persons[i].id : i \in 1..Len(persons) }

Lookup(persons, pid) ==
    persons[CHOOSE i \in 1..Len(persons) : persons[i].id = pid]

InOrder(ord, pid) == \E i \in 1..Len(ord) : ord[i] = pid

person_with_display_name(names, person) ==
    LET fromMap == IF person.id \in DOMAIN names THEN names[person.id]
                   ELSE person.name
        display_name == OrElse(OrElse(fromMap, person.name), <<>>)
    IN IF display_name = person.name THEN person
       ELSE [person EXCEPT !.name = display_name]

\* add(person, link_to_existing_id): the repository state after the call,
\* as <<_by_id, _order, _contact_names>>.
add(persons, ord, names, person, link) ==
    LET contact_name == OrElse(strip(OrElse(person.name, <<>>)), <<>>) IN
    IF link # NoId /\ link # EmptyId
    THEN <<persons,
           IF link \in Ids(persons) /\ ~InOrder(ord, link)
           THEN Append(ord, link) ELSE ord,
           [i \in (DOMAIN names) \cup {link} |->
               IF i = link THEN contact_name ELSE names[i]]>>
    ELSE IF person.id \in Ids(persons) THEN <<persons, ord, names>>
    ELSE LET stored_phone ==
                 IF normalize_phone(strip(OrElse(person.phone_number, <<>>))) # None
                 THEN normalize_phone(strip(OrElse(person.phone_number, <<>>)))
                 ELSE person.phone_number
             person_to_store ==
                 MkPerson(person.id, <<>>, stored_phone, person.external_id,
                          person.relationship_context)
         IN <<Append(persons, person_to_store),
              Append(ord, person.id),
              [i \in (DOMAIN names) \cup {person.id} |->
                  IF i = person.id THEN contact_name ELSE names[i]]>>

get_by_id(pid) ==
    IF pid \in Ids(by_id)
    THEN person_with_display_name(contact_names, Lookup(by_id, pid))
    ELSE NoPerson

RECURSIVE list_from(_, _, _)
list_from(persons, names, ord) ==
    IF ord = <<>> THEN <<>>
    ELSE (IF Head(ord) \in Ids(persons)
          THEN <<person_with_display_name(names, Lookup(persons, Head(ord)))>>
          ELSE <<>>) \o list_from(persons, names, Tail(ord))

list_all == list_from(by_id, contact_names, order)

\* A duplicate test that looks at the external id only.
DuplicateMatch_external_id_only(person, card_phone, card_tid) ==
    /\ Truthy(card_tid) /\ Truthy(person.external_id)
    /\ person.external_id = card_tid

\* One turn of find_duplicate's loop: does this stored person match?
DuplicateMatch(person, card_phone, card_tid) ==
    \/ /\ Truthy(card_tid) /\ Truthy(person.external_id)
       /\ person.external_id = card_tid
    \/ /\ Truthy(card_phone) /\ Truthy(person.phone_number)
       /\ LET n == normalize_phone(person.phone_number)
              person_phone == IF n # None THEN n ELSE person.phone_number
          IN person_phone = card_phone

find_duplicate(card) ==
    LET raw_phone == OrElse(strip(OrElse(card.phone_number, <<>>)), None)
        card_phone == IF Truthy(raw_phone) THEN normalize_phone(raw_phone) ELSE None
        card_tid == normalize_telegram_id(card.telegram_user_id)
        hits == { i \in 1..Len(by_id) : DuplicateMatch(by_id[i], card_phone, card_tid) }
    IN IF hits = {} THEN NoPerson
       ELSE person_with_display_name(contact_names,
                by_id[CHOOSE i \in hits : \A j \in hits : i <= j])

\* "\n\n" + em dash + " "; the dash is written "-" here.
Separator == <<"\n", "\n", "-", " ">>

\* An append_context that writes the new text over the description.
append_context_replacing(pid, additional_text) ==
    [i \in 1..Len(by_id) |->
        IF by_id[i].id = pid
        THEN [by_id[i] EXCEPT !.relationship_context.description =
                 strip(OrElse(additional_text, <<>>))]
        ELSE by_id[i]]

\* append_context(person_id, additional_text): the new _by_id.
append_context(pid, additional_text) ==
    [i \in 1..Len(by_id) |->
        IF by_id[i].id = pid
        THEN [by_id[i] EXCEPT !.relationship_context.description =
                 @ \o Separator \o strip(OrElse(additional_text, <<>>))]
        ELSE by_id[i]]

---------------------------------------------------------------------------
(* Neo4jContactRepository: the Cypher statements over nodes and knows.     *)

\* Neo4jContactRepository._user_id
OwnerId == 200

MkNode(nid, name, phone, ext, tid, created_at, registered) ==
    [id |-> nid, name |-> name, phone_number |-> phone, external_id |-> ext,
     telegram_id |-> tid, created_at |-> created_at, registered |-> registered]

MkKnows(from, to, ctx, contact_name) ==
    [from |-> from, to |-> to, context_id |-> ctx.id,
     context_description |-> ctx.description, contact_name |-> contact_name]

NodeIds(ns) == { ns[i].id : i \in 1..Len(ns) }

NodeById(ns, nid) == ns[CHOOSE i \in 1..Len(ns) : ns[i].id = nid]

\* The created_at of a node that has none (ORDER BY puts null last).
NullCreatedAt == 1000

\* MERGE (owner:Person {id: $user_id, registered: true})
MergeOwner(user_id, ns) ==
    IF \E i \in 1..Len(ns) : ns[i].id = user_id /\ ns[i].registered
    THEN ns
    ELSE Append(ns, MkNode(user_id, None, None, None, None, NullCreatedAt, TRUE))

\* add(person, link_to_existing_id): <<nodes, knows>> after the call.
neo4j_add(user_id, ns, ks, person, link0, created_at) ==
    LET link == IF link0 = EmptyId THEN NoId ELSE link0
        ctx == person.relationship_context
        contact_name == OrElse(strip(OrElse(person.name, <<>>)), <<>>)
    IN IF link = user_id THEN <<ns, ks>>
       ELSE IF link # NoId
       THEN <<MergeOwner(user_id, ns),
              IF link \in NodeIds(MergeOwner(user_id, ns))
              THEN Append(ks, MkKnows(user_id, link, ctx, contact_name))
              ELSE ks>>
       ELSE LET telegram_id == OrElse(strip(OrElse(person.external_id, <<>>)), None)
                n == normalize_phone(strip(OrElse(person.phone_number, <<>>)))
                stored_phone == IF n # None THEN n ELSE <<>>
            IN <<Append(MergeOwner(user_id, ns),
                        MkNode(person.id, <<>>, stored_phone,
                               OrElse(person.external_id, <<>>), telegram_id,
                               created_at, FALSE)),
                 Append(ks, MkKnows(user_id, person.id, ctx, contact_name))>>

\* _record_to_person(record)
record_to_person(p, k) ==
    LET name == OrElse(OrElse(strip(OrElse(k.contact_name, <<>>)),
                              strip(OrElse(p.name, <<>>))), <<>>)
        phone == OrElse(p.phone_number, None)
        ext == OrElse(OrElse(p.external_id, p.telegram_id), None)
    IN MkPerson(p.id, name, phone, ext,
                MkContext(k.context_id, k.context_description))

\* A MATCH that forgets the owner: every relationship of the graph.
OwnerRows_any_owner(user_id) ==
    { i \in 1..Len(knows) : knows[i].to \in NodeIds(nodes) }

\* MATCH (owner:Person {id: $user_id, registered: true})-[k:KNOWS]->(p:Person):
\* the indexes of the matching relationships.
OwnerRows(user_id) ==
    LET owner == \E j \in 1..Len(nodes) :
                     nodes[j].id = user_id /\ nodes[j].registered
        ids == NodeIds(nodes)
    IN IF owner
       THEN { i \in 1..Len(knows) :
                 knows[i].from = user_id /\ knows[i].to \in ids }
       ELSE {}

\* What a call answers when _record_to_person raises KeyError: p has no
\* created_at.
KeyErrorId == -2

Raised == MkPerson(KeyErrorId, None, None, None, MkContext(NoId, None))

RowPerson(i) ==
    LET p == NodeById(nodes, knows[i].to)
    IN IF p.created_at = NullCreatedAt THEN Raised
       ELSE record_to_person(p, knows[i])

RowCreatedAt(i) == NodeById(nodes, knows[i].to).created_at

\* The rows ORDER BY p.created_at (equal stamps in creation order of the
\* relationships).
SortRows(rows) ==
    LET stamp == [i \in rows |-> RowCreatedAt(i)]
        Before(i, j) == \/ stamp[i] < stamp[j]
                        \/ stamp[i] = stamp[j] /\ i < j
        Rank(i) == Cardinality({ j \in rows : Before(j, i) }) + 1
    IN [k \in 1..Cardinality(rows) |->
           RowPerson(CHOOSE i \in rows : Rank(i) = k)]

neo4j_list_all(user_id) == SortRows(OwnerRows(user_id))

\* get_by_id: the rows WHERE p.id = $id (result.single() takes one).
neo4j_get_rows(user_id, pid) == { i \in OwnerRows(user_id) : knows[i].to = pid }

neo4j_get_by_id(user_id, pid) ==
    LET rows == neo4j_get_rows(user_id, pid)
    IN IF rows = {} THEN NoPerson
       ELSE RowPerson(CHOOSE i \in rows : \A j \in rows : i <= j)

\* find_duplicate: the rows of the phone query and of the external-id query.
neo4j_phone_rows(user_id, card_phone) ==
    { i \in OwnerRows(user_id) : NodeById(nodes, knows[i].to).phone_number = card_phone }

neo4j_tid_rows(user_id, card_tid) ==
    { i \in OwnerRows(user_id) :
        \/ NodeById(nodes, knows[i].to).telegram_id = card_tid
        \/ NodeById(nodes, knows[i].to).external_id = card_tid }

neo4j_find_duplicate(user_id, card) ==
    LET raw_phone == OrElse(strip(OrElse(card.phone_number, <<>>)), None)
        card_phone == IF Truthy(raw_phone) THEN normalize_phone(raw_phone) ELSE None
        card_tid == normalize_telegram_id(card.telegram_user_id)
        First(rows) == RowPerson(CHOOSE i \in rows : \A j \in rows : i <= j)
        by_phone == neo4j_phone_rows(user_id, card_phone)
        by_tid == neo4j_tid_rows(user_id, card_tid)
    IN IF ~Truthy(card_phone) /\ ~Truthy(card_tid) THEN NoPerson
       ELSE IF Truthy(card_phone) /\ by_phone # {}
       THEN First(by_phone)
       ELSE IF Truthy(card_tid) /\ by_tid # {}
       THEN First(by_tid)
       ELSE NoPerson

\* append_context(person_id, additional_text): the new knows.
neo4j_append_context(user_id, pid, additional_text) ==
    LET rows == neo4j_get_rows(user_id, pid) IN
    [i \in 1..Len(knows) |->
        IF i \in rows
        THEN [knows[i] EXCEPT !.context_description =
                 @ \o Separator \o strip(OrElse(additional_text, <<>>))]
        ELSE knows[i]]

CHANNEL_TELEGRAM == <<"t">>

\* A lookup that answers for any channel.
get_person_id_any_channel(channel, external_id) ==
    LET eid == strip(OrElse(external_id, <<>>))
        hits == { i \in 1..Len(nodes) : nodes[i].telegram_id = eid }
    IN IF hits = {} THEN NoId
       ELSE nodes[CHOOSE i \in hits : \A j \in hits : i <= j].id

\* get_person_id_by_channel_external_id(driver, channel, external_id)
get_person_id_by_channel_external_id(channel, external_id) ==
    LET ch == strip(OrElse(channel, <<>>))
        eid == strip(OrElse(external_id, <<>>))
        hits == { i \in 1..Len(nodes) : nodes[i].telegram_id = eid }
    IN IF ~Truthy(eid) \/ ch # CHANNEL_TELEGRAM \/ hits = {} THEN NoId
       ELSE nodes[CHOOSE i \in hits : \A j \in hits : i <= j].id

---------------------------------------------------------------------------
(* The repository the service holds. *)

repo_find_duplicate(card) ==
    IF backend = "memory" THEN find_duplicate(card) ELSE neo4j_find_duplicate(OwnerId, card)

repo_get_by_id(pid) ==
    IF backend = "memory" THEN get_by_id(pid) ELSE neo4j_get_by_id(OwnerId, pid)

repo_list_all ==
    IF backend = "memory" THEN list_all ELSE neo4j_list_all(OwnerId)

---------------------------------------------------------------------------
(* ContactService. *)

ContactSummary(person) ==
    [name |-> person.name,
     context |-> person.relationship_context.description,
     person_id |-> person.id,
     phone_number |-> person.phone_number]

Summaries(persons) == [i \in 1..Len(persons) |-> ContactSummary(persons[i])]

Call(op, cid, text) == [op |-> op, id |-> cid, text |-> text]

Ret(kind, rid, name) == [kind |-> kind, id |-> rid, name |-> name]

---------------------------------------------------------------------------
(* Inputs. *)

\* Contact cards: two formattings of one valid number, a second valid
\* number, a number that cannot be normalised, two formattings of one
\* external id, padded and blank names.
Cards ==
    { [name |-> <<"A">>, phone_number |-> <<"+", "1", "2">>, telegram_user_id |-> None],
      [name |-> <<" ", "B">>, phone_number |-> <<"+", "1", " ", "2">>, telegram_user_id |-> <<"7">>],
      [name |-> <<"A">>, phone_number |-> None, telegram_user_id |-> <<" ", "7">>],
      [name |-> <<" ", "B">>, phone_number |-> <<"1", "2">>, telegram_user_id |-> None],
      [name |-> <<"A">>, phone_number |-> <<"+", "3">>, telegram_user_id |-> <<" ">>],
      [name |-> <<" ">>, phone_number |-> <<"+", "3">>, telegram_user_id |-> None] }

\* The external id the resolver knows about.
LinkedExt == <<"7">>

ValidTexts == { <<" ", "Y", " ">> }

Texts == ValidTexts \cup { None, <<" ">> }

Keywords == { <<" ">>, <<" ", "y">> }

\* Texts passed to add_context.
AppendTexts == { <<" ", "z">>, <<" ">> }

\* The pending ids a caller can name: every uuid drawn so far and an id
\* that was never issued.
PendingIds == (1..n_pending) \cup { WrongId }

\* The ids of the owner's stored contacts.
StoredIds ==
    IF backend = "memory" THEN Ids(by_id)
    ELSE { knows[i].to : i \in OwnerRows(OwnerId) }

\* The person ids a caller can name: the stored ones and an id that was
\* never issued.
PersonIds == StoredIds \cup { WrongId }

\* How the service over the in-memory repository is built: without a
\* resolver, or with one that answers the id of an existing person for
\* LinkedExt and None for any other id; and whether the repository already
\* holds that person.
Setups ==
    { [resolver |-> [present |-> FALSE, target |-> NoId], pre |-> FALSE],
      [resolver |-> [present |-> TRUE, target |-> ExistingId], pre |-> FALSE],
      [resolver |-> [present |-> TRUE, target |-> ExistingId], pre |-> TRUE] }

\* A contact the in-memory repository may hold before the service is built
\* (added through the repository's own add).
PreExisting ==
    MkPerson(ExistingId, <<"B">>, None, None, MkContext(ExistingId + 1, <<"p">>))

\* The registered users of the graph before the service is built: the owner
\* alone, the owner and another user who has the external id LinkedExt,
\* or an owner who has that external id.  The resolver is wired in the
\* last two.
OwnerNode(tid) == MkNode(OwnerId, <<"O">>, None, None, tid, 0, TRUE)

OtherUserNode == MkNode(ExistingId, <<"B">>, None, None, LinkedExt, 0, TRUE)

GraphSetups ==
    { [present |-> FALSE, nodes |-> <<OwnerNode(<<"9">>)>>],
      [present |-> TRUE, nodes |-> <<OwnerNode(<<"9">>), OtherUserNode>>],
      [present |-> TRUE, nodes |-> <<OwnerNode(LinkedExt)>>] }

\* The resolver callable: a stub that knows one external id (in-memory
\* setups), the identity lookup over the graph (graph setups).
resolve_existing_person_id(eid) ==
    IF backend = "memory"
    THEN IF eid = LinkedExt THEN resolver.target ELSE NoId
    ELSE get_person_id_by_channel_external_id(CHANNEL_TELEGRAM, eid)

---------------------------------------------------------------------------
(* ContactService operations: result operators and actions. *)

\* A receive_contact_card that tests the name without trimming it.
receive_result_untrimmed(card) ==
    LET name == OrElse(card.name, <<>>)
        existing == repo_find_duplicate(card)
    IN IF ~Truthy(name) THEN Ret("Invalid", NoId, <<>>)
       ELSE IF existing # NoPerson
            THEN Ret("Duplicate", existing.id, existing.name)
       ELSE Ret("PendingContact", n_pending + 1, strip(name))

\* A receive_contact_card whose Duplicate carries the name on the card.
receive_result_card_name(card) ==
    LET name == strip(OrElse(card.name, <<>>))
        existing == repo_find_duplicate(card)
    IN IF ~Truthy(name) THEN Ret("Invalid", NoId, <<>>)
       ELSE IF existing # NoPerson
            THEN Ret("Duplicate", existing.id, name)
       ELSE Ret("PendingContact", n_pending + 1, name)

receive_result(card) ==
    LET name == strip(OrElse(card.name, <<>>))
        existing == repo_find_duplicate(card)
    IN IF ~Truthy(name) THEN Ret("Invalid", NoId, <<>>)
       ELSE IF existing # NoPerson
            THEN Ret("Duplicate", existing.id, existing.name)
       ELSE Ret("PendingContact", n_pending + 1, name)

\* At most MaxCards pending ids are drawn; a card that draws none
\* (Invalid, Duplicate) can always be sent.
receive_contact_card(card) ==
    /\ n_pending < MaxCards \/ receive_result(card).kind # "PendingContact"
    /\ call' = Call("receive_contact_card", NoId, None)
    /\ listed_before' = <<>>
    /\ repo_accessed' = Truthy(strip(OrElse(card.name, <<>>)))
    /\ ret' = receive_result(card)
    /\ IF ret'.kind = "PendingContact"
       THEN /\ pending_id' = n_pending + 1
            /\ pending_card' = card
            /\ n_pending' = n_pending + 1
            /\ replaced' = IF pending_id # NoId THEN replaced \cup {pending_id}
                           ELSE replaced
       ELSE UNCHANGED <<pending_id, pending_card, n_pending, replaced>>
    /\ UNCHANGED <<resolver, by_id, order, contact_names, backend, nodes, knows,
                   n_persons, n_appends, consumed>>

\* The id submit_context links to (NoId: a new Person is stored).
link_to_existing_id(card) ==
    IF resolver.present /\ card.telegram_user_id # None
    THEN LET eid == strip(card.telegram_user_id) IN
         IF Truthy(eid)
         THEN IF resolve_existing_person_id(eid) = EmptyId THEN NoId
              ELSE resolve_existing_person_id(eid)
         ELSE NoId
    ELSE NoId

\* The Person submit_context builds from the pending card.
person_of(card, context_clean) ==
    MkPerson(PersonBase + n_persons + 1,
             strip(card.name),
             OrElse(strip(OrElse(card.phone_number, <<>>)), None),
             IF card.telegram_user_id # None
             THEN OrElse(strip(card.telegram_user_id), None) ELSE None,
             MkContext(CtxBase + n_persons + 1, context_clean))

\* A submit_context that takes whatever id it is given for the held one.
submit_branch_any_id(pid, context_text) ==
    LET context_clean == strip(OrElse(context_text, <<>>)) IN
    IF pending_card = NoCard THEN "not_found"
    ELSE IF ~Truthy(context_clean) THEN "empty_text"
    ELSE "created"

\* Which return statement submit_context reaches.
submit_branch(pid, context_text) ==
    LET context_clean == strip(OrElse(context_text, <<>>)) IN
    IF pending_id # pid \/ pending_card = NoCard THEN "not_found"
    ELSE IF ~Truthy(context_clean) THEN "empty_text"
    ELSE IF ~RelationshipContextValid(context_clean) THEN "bad_context"
    ELSE IF ~PersonValid(strip(pending_card.name)) THEN "bad_person"
    ELSE "created"

\* A submit_context that stores as the code does and answers
\* PendingNotFound whatever it did.
submit_result_never_created(pid, context_text) ==
    Ret("PendingNotFound", pid, <<>>)

\* A submit_context that leaves self._pending as it is on every path.
pending_after_submit_kept(branch) ==
    [id |-> pending_id, card |-> pending_card]

\* self._pending after submit_context has reached the given return
\* statement: None after "created", untouched on the other paths.
pending_after_submit(branch) ==
    IF branch = "created" THEN [id |-> NoId, card |-> NoCard]
    ELSE [id |-> pending_id, card |-> pending_card]

submit_result(pid, context_text) ==
    LET context_clean == strip(OrElse(context_text, <<>>))
        person == person_of(pending_card, context_clean)
        link == link_to_existing_id(pending_card)
    IN IF submit_branch(pid, context_text) # "created"
       THEN Ret("PendingNotFound", pid, <<>>)
       ELSE Ret("ContactCreated",
                IF link # NoId /\ link # EmptyId THEN link ELSE person.id,
                person.name)

submit_context(pid, context_text) ==
    LET context_clean == strip(OrElse(context_text, <<>>))
        person == person_of(pending_card, context_clean)
        link == link_to_existing_id(pending_card)
        after == add(by_id, order, contact_names, person, link)
        graph == neo4j_add(OwnerId, nodes, knows, person, link, n_persons + 1)
        branch == submit_branch(pid, context_text)
    IN /\ call' = Call("submit_context", pid, context_text)
       /\ listed_before' = <<>>
       /\ repo_accessed' = (branch = "created")
       /\ ret' = submit_result(pid, context_text)
       /\ IF branch = "created"
          THEN /\ IF backend = "memory"
                  THEN /\ by_id' = after[1]
                       /\ order' = after[2]
                       /\ contact_names' = after[3]
                       /\ UNCHANGED <<nodes, knows>>
                  ELSE /\ nodes' = graph[1]
                       /\ knows' = graph[2]
                       /\ UNCHANGED <<by_id, order, contact_names>>
               /\ n_persons' = n_persons + 1
               /\ consumed' = consumed \cup {pid}
          ELSE UNCHANGED <<by_id, order, contact_names, nodes, knows,
                           n_persons, consumed>>
       /\ pending_id' = pending_after_submit(branch).id
       /\ pending_card' = pending_after_submit(branch).card
       /\ UNCHANGED <<resolver, backend, n_pending, n_appends, replaced>>

\* What list_contacts returns.
list_contacts_result == Summaries(repo_list_all)

\* A list_contacts that forgets the pending card.
list_contacts_dropping_pending ==
    /\ call' = Call("list_contacts", NoId, None)
    /\ listed_before' = <<>>
    /\ repo_accessed' = TRUE
    /\ ret' = Ret("list", NoId, <<>>)
    /\ pending_id' = NoId
    /\ pending_card' = NoCard
    /\ UNCHANGED <<resolver, by_id, order, contact_names, backend, nodes, knows,
                   n_pending, n_persons, n_appends, replaced, consumed>>

list_contacts ==
    /\ call' = Call("list_contacts", NoId, None)
    /\ listed_before' = <<>>
    /\ repo_accessed' = TRUE
    /\ ret' = Ret("list", NoId, <<>>)
    /\ UNCHANGED <<pending_id, pending_card, resolver, by_id, order,
                   contact_names, backend, nodes, knows, n_pending, n_persons,
                   n_appends, replaced, consumed>>

\* What search_contacts returns.
search_result(keyword) ==
    IF ~Truthy(keyword) \/ ~Truthy(strip(keyword))
    THEN <<>>
    ELSE LET needle == lower(strip(keyword))
             Hit(person) ==
                 Contains(needle, lower(person.relationship_context.description))
         IN Summaries(SelectSeq(repo_list_all, Hit))

search_contacts(keyword) ==
    /\ call' = Call("search_contacts", NoId, None)
    /\ listed_before' = <<>>
    /\ repo_accessed' = (Truthy(keyword) /\ Truthy(strip(keyword)))
    /\ ret' = Ret("list", NoId, <<>>)
    /\ UNCHANGED <<pending_id, pending_card, resolver, by_id, order,
                   contact_names, backend, nodes, knows, n_pending, n_persons,
                   n_appends, replaced, consumed>>

\* What get_contact returns (the summary of NoPerson: None).
get_contact_result(pid) == ContactSummary(repo_get_by_id(pid))

get_contact(pid) ==
    /\ call' = Call("get_contact", pid, None)
    /\ listed_before' = <<>>
    /\ repo_accessed' = TRUE
    /\ ret' = LET person == repo_get_by_id(pid)
              IN IF person = NoPerson THEN Ret("None", NoId, <<>>)
                 ELSE Ret("ContactSummary", pid, person.name)
    /\ UNCHANGED <<pending_id, pending_card, resolver, by_id, order,
                   contact_names, backend, nodes, knows, n_pending, n_persons,
                   n_appends, replaced, consumed>>

\* A repository whose append_context reports an update for every id.
append_ok_always(pid) == TRUE

\* An add_context that asks the repository before it looks at the text.
add_context_result_lookup_first(pid, context_text) ==
    IF repo_get_by_id(pid) = NoPerson
    THEN Ret("AddContextNotFound", pid, <<>>)
    ELSE IF ~Truthy(strip(OrElse(context_text, <<>>)))
    THEN Ret("AddContextInvalid", NoId, <<>>)
    ELSE Ret("AddContextSuccess", NoId, repo_get_by_id(pid).name)

\* What repo.append_context returns: was a contact updated?
append_ok(pid) ==
    IF backend = "memory" THEN pid \in Ids(by_id)
    ELSE neo4j_get_rows(OwnerId, pid) # {}

add_context_result(pid, context_text) ==
    IF ~Truthy(strip(OrElse(context_text, <<>>)))
    THEN Ret("AddContextInvalid", NoId, <<>>)
    ELSE IF ~append_ok(pid)
    THEN Ret("AddContextNotFound", pid, <<>>)
    ELSE Ret("AddContextSuccess", NoId, repo_get_by_id(pid).name)

add_context(pid, context_text) ==
    /\ call' = Call("add_context", pid, context_text)
    /\ listed_before' = Summaries(repo_list_all)
    /\ repo_accessed' = Truthy(strip(OrElse(context_text, <<>>)))
    /\ ret' = add_context_result(pid, context_text)
    /\ IF ret'.kind = "AddContextSuccess"
       THEN /\ n_appends < MaxAppends
            /\ IF backend = "memory"
               THEN /\ by_id' = append_context(pid, strip(context_text))
                    /\ UNCHANGED knows
               ELSE /\ knows' = neo4j_append_context(OwnerId, pid, strip(context_text))
                    /\ UNCHANGED by_id
            /\ n_appends' = n_appends + 1
       ELSE UNCHANGED <<by_id, knows, n_appends>>
    /\ UNCHANGED <<pending_id, pending_card, resolver, order, contact_names,
                   backend, nodes, n_pending, n_persons, replaced, consumed>>

---------------------------------------------------------------------------
(* identity.py: get_or_create_user_id over the graph's Person nodes.  Each *)
(* session.run is one transaction; the callers interleave between them.    *)

\* uuid4() of the n-th get_or_create_user_id call is UserBase + n.
UserBase == 300

Callers == 1..MaxCallers

\* A caller outside get_or_create_user_id.
IdleCall ==
    [pc |-> "idle", telegram_id |-> None, user_id |-> NoId, record |-> NoId,
     name |-> None, outcome |-> "None"]

\* _LOOKUP_QUERY and result.single(): the id of the Person carrying this
\* telegram_id, NoId when there is none.
lookup(ns, telegram_id) ==
    LET hits == { i \in 1..Len(ns) : ns[i].telegram_id = telegram_id }
    IN IF hits = {} THEN NoId
       ELSE ns[CHOOSE i \in hits : \A j \in hits : i <= j].id

\* _SET_REGISTERED_QUERY
set_registered_query(ns, user_id) ==
    [i \in 1..Len(ns) |->
        IF ns[i].id = user_id THEN [ns[i] EXCEPT !.registered = TRUE]
        ELSE ns[i]]

\* A constraint that lets every CREATE through.
person_telegram_id_unchecked(ns, telegram_id) == TRUE

\* _CONSTRAINT_QUERY (person_telegram_id_unique, created by
\* ensure_identity_constraint at startup): may a Person with this
\* telegram_id be created?
person_telegram_id_unique(ns, telegram_id) ==
    \A i \in 1..Len(ns) : ns[i].telegram_id # telegram_id

\* _CREATE_OWNER_QUERY
create_owner(ns, user_id, telegram_id, created_at) ==
    Append(ns, MkNode(user_id, None, None, None, telegram_id, created_at, TRUE))

\* _SET_OWNER_NAME_QUERY
set_owner_name(ns, user_id, name) ==
    [i \in 1..Len(ns) |->
        IF ns[i].id = user_id /\ ns[i].registered
        THEN [ns[i] EXCEPT !.name = name]
        ELSE ns[i]]

\* return (user_id, is_new_account)
Returned(telegram_id, user_id, is_new) ==
    [telegram_id |-> telegram_id, user_id |-> user_id, is_new |-> is_new]

Finished(c, telegram_id, outcome) ==
    [resolving EXCEPT ![c] = [IdleCall EXCEPT !.telegram_id = telegram_id,
                                              !.outcome = outcome]]

\* get_or_create_user_id(driver, channel, external_id, initial_name=...):
\* the argument checks and the locals, up to the opening of the session.
get_or_create_user_id(c, channel, external_id, initial_name) ==
    LET eid == strip(OrElse(external_id, <<>>))
        ch == strip(OrElse(channel, <<>>))
        valid == Truthy(eid) /\ Truthy(ch) /\ ch = CHANNEL_TELEGRAM
    IN /\ resolving[c].pc = "idle"
       /\ n_resolves < MaxResolves
       /\ n_resolves' = n_resolves + 1
       /\ resolving' =
             IF valid
             THEN [resolving EXCEPT ![c] =
                      [pc |-> "lookup", telegram_id |-> eid,
                       user_id |-> UserBase + n_resolves + 1, record |-> NoId,
                       name |-> OrElse(strip(OrElse(initial_name, <<>>)), None),
                       outcome |-> "None"]]
             ELSE Finished(c, None, "ValueError")
       /\ sequential' = (sequential /\ \A d \in Callers : resolving[d].pc = "idle")
       /\ UNCHANGED <<nodes, returns>>
       /\ UNCHANGED service_vars

\* session.run(_LOOKUP_QUERY, ...); record = result.single()
run_lookup(c) ==
    LET record == lookup(nodes, resolving[c].telegram_id)
    IN /\ resolving[c].pc = "lookup"
       /\ resolving' = [resolving EXCEPT ![c].record = record,
                                         ![c].pc = IF record # NoId
                                                   THEN "set_registered"
                                                   ELSE "create"]
       /\ UNCHANGED <<nodes, returns, n_resolves, sequential>>
       /\ UNCHANGED service_vars

\* session.run(_SET_REGISTERED_QUERY, ...); return (record["user_id"], False)
run_set_registered(c) ==
    /\ resolving[c].pc = "set_registered"
    /\ nodes' = set_registered_query(nodes, resolving[c].record)
    /\ returns' = Append(returns, Returned(resolving[c].telegram_id,
                                           resolving[c].record, FALSE))
    /\ resolving' = Finished(c, resolving[c].telegram_id, "returned")
    /\ UNCHANGED <<n_resolves, sequential>>
    /\ UNCHANGED service_vars

\* session.run(_CREATE_OWNER_QUERY, ...): the statement fails when the
\* constraint forbids the node; return (record["user_id"], True) follows
\* when there is no name to set.
run_create_owner(c) ==
    LET me == resolving[c]
    IN /\ me.pc = "create"
       /\ IF person_telegram_id_unique(nodes, me.telegram_id)
          THEN /\ nodes' = create_owner(nodes, me.user_id, me.telegram_id,
                                        me.user_id)
               /\ IF Truthy(me.name)
                  THEN /\ resolving' = [resolving EXCEPT ![c].pc = "set_name",
                                                         ![c].record = me.user_id]
                       /\ UNCHANGED returns
                  ELSE /\ resolving' = Finished(c, me.telegram_id, "returned")
                       /\ returns' = Append(returns, Returned(me.telegram_id,
                                                              me.user_id, TRUE))
          ELSE /\ resolving' = Finished(c, me.telegram_id, "ConstraintError")
               /\ UNCHANGED <<nodes, returns>>
       /\ UNCHANGED <<n_resolves, sequential>>
       /\ UNCHANGED service_vars

\* session.run(_SET_OWNER_NAME_QUERY, ...); return (record["user_id"], True)
run_set_owner_name(c) ==
    LET me == resolving[c]
    IN /\ me.pc = "set_name"
       /\ nodes' = set_owner_name(nodes, me.record, me.name)
       /\ returns' = Append(returns, Returned(me.telegram_id, me.record, TRUE))
       /\ resolving' = Finished(c, me.telegram_id, "returned")
       /\ UNCHANGED <<n_resolves, sequential>>
       /\ UNCHANGED service_vars

\* What the callers pass.
Channels == { CHANNEL_TELEGRAM, <<"w">> }

ExternalIds == { <<"7">>, <<" ", "7">>, <<"8">>, <<" ">> }

InitialNames == { None, <<"N">> }

\* A contact somebody stored before its owner ever signed up: a Person
\* with the telegram id LinkedExt and registered = false.
ContactOfSomeone ==
    MkPerson(PersonBase + 1, <<"B">>, None, LinkedExt,
             MkContext(CtxBase + 1, <<"p">>))

\* The graph before the calls: empty, or an owner and that contact.
IdentitySetups ==
    { <<(<<>>), (<<>>)>>,
      neo4j_add(OwnerId, <<OwnerNode(<<"9">>)>>, <<>>, ContactOfSomeone, NoId, 1) }

---------------------------------------------------------------------------
(* The engine over the in-memory repository and over the graph. *)

InitService ==
    /\ pending_id = NoId
    /\ pending_card = NoCard
    /\ n_pending = 0
    /\ n_persons = 0
    /\ n_appends = 0
    /\ call = Call("init", NoId, None)
    /\ ret = Ret("None", NoId, <<>>)
    /\ replaced = {}
    /\ consumed = {}
    /\ repo_accessed = FALSE
    /\ resolving = [c \in Callers |-> IdleCall]
    /\ returns = <<>>
    /\ n_resolves = 0
    /\ sequential = TRUE
    /\ pending_by_chat = <<>>
    /\ pending_add_context_by_chat = <<>>
    /\ pending_add_context_file = <<>>
    /\ added_by = <<>>
    /\ view_before = <<>>
    /\ machine = <<>>
    /\ session = <<>>
    /\ step = <<>>
    /\ flow = <<>>
    /\ state = <<>>
    /\ run = <<>>

InitMemory ==
    /\ InitService
    /\ backend = "memory"
    /\ nodes = <<>>
    /\ knows = <<>>
    /\ \E setup \in Setups :
          LET start == IF setup.pre THEN add(<<>>, <<>>, <<>>, PreExisting, NoId)
                       ELSE <<(<<>>), (<<>>), (<<>>)>>
          IN /\ resolver = setup.resolver
             /\ by_id = start[1]
             /\ order = start[2]
             /\ contact_names = start[3]
    /\ listed_before = <<>>

InitNeo4j ==
    /\ InitService
    /\ backend = "neo4j"
    /\ by_id = <<>>
    /\ order = <<>>
    /\ contact_names = <<>>
    /\ knows = <<>>
    /\ \E setup \in GraphSetups :
          /\ resolver = [present |-> setup.present, target |-> NoId]
          /\ nodes = setup.nodes
    /\ listed_before = <<>>

Next ==
    \/ \E card \in Cards :
          receive_contact_card(card) /\ UNCHANGED <<identity_vars, outer_vars>>
    \/ \E pid \in PendingIds, text \in Texts :
          submit_context(pid, text) /\ UNCHANGED <<identity_vars, outer_vars>>
    \/ list_contacts /\ UNCHANGED <<identity_vars, outer_vars>>
    \/ \E keyword \in Keywords :
          search_contacts(keyword) /\ UNCHANGED <<identity_vars, outer_vars>>
    \/ \E pid \in PersonIds :
          get_contact(pid) /\ UNCHANGED <<identity_vars, outer_vars>>
    \/ \E pid \in PersonIds, text \in AppendTexts :
          add_context(pid, text) /\ UNCHANGED <<identity_vars, outer_vars>>

Init == InitMemory \/ InitNeo4j

Spec == Init /\ [][Next]_vars

---------------------------------------------------------------------------
(* The identity layer alone: callers of get_or_create_user_id over a graph *)
(* that is empty or holds a contact nobody has signed up as.               *)

InitIdentity ==
    /\ InitService
    /\ backend = "neo4j"
    /\ by_id = <<>>
    /\ order = <<>>
    /\ contact_names = <<>>
    /\ resolver = [present |-> TRUE, target |-> NoId]
    /\ \E setup \in IdentitySetups :
          /\ nodes = setup[1]
          /\ knows = setup[2]
    /\ listed_before = <<>>

NextIdentity ==
    \/ \E c \in Callers, channel \in Channels, external_id \in ExternalIds,
          initial_name \in InitialNames :
          get_or_create_user_id(c, channel, external_id, initial_name)
          /\ UNCHANGED outer_vars
    \/ \E c \in Callers : run_lookup(c) /\ UNCHANGED outer_vars
    \/ \E c \in Callers : run_set_registered(c) /\ UNCHANGED outer_vars
    \/ \E c \in Callers : run_create_owner(c) /\ UNCHANGED outer_vars
    \/ \E c \in Callers : run_set_owner_name(c) /\ UNCHANGED outer_vars

SpecIdentity == InitIdentity /\ [][NextIdentity]_vars

---------------------------------------------------------------------------
(* main.webhook_telegram: contact and text messages of the chats of one    *)
(* registered owner.  get_service keeps one ContactService per user id;    *)
(* the service is built without a resolver.                                *)

Chats == 1..MaxChats

\* dict.get(key, default), d[key] = value, dict.pop(key, None)
DictGet(d, key, default) == IF key \in DOMAIN d THEN d[key] ELSE default

DictSet(d, key, value) ==
    [k \in (DOMAIN d) \cup {key} |-> IF k = key THEN value ELSE d[k]]

DictPop(d, key) == [k \in (DOMAIN d) \ {key} |-> d[k]]

\* "no entry" of the pending add-context maps.
NoAddContext == [person_id |-> NoId, name |-> <<>>]

\* The name "Unknown" given to a contact without a first name.
Unknown == <<"U">>

\* The ContactCardData the handler builds from a shared telegram Contact.
card_of_contact(c) ==
    LET first == strip(OrElse(c.first_name, <<>>))
        full == IF Truthy(c.last_name)
                THEN strip(first \o <<" ">> \o c.last_name) ELSE first
    IN [name |-> OrElse(full, Unknown), phone_number |-> c.phone_number,
        telegram_user_id |-> c.user_id]

\* if update.message and update.message.contact: ...
webhook_contact(chat_id, c) ==
    /\ receive_contact_card(card_of_contact(c))
    /\ pending_by_chat' =
          IF ret'.kind = "PendingContact"
          THEN DictSet(pending_by_chat, chat_id, ret'.id)
          ELSE pending_by_chat
    /\ pending_add_context_by_chat' =
          IF ret'.kind = "Duplicate"
          THEN DictSet(pending_add_context_by_chat, chat_id,
                       [person_id |-> ret'.id, name |-> ret'.name])
          ELSE DictPop(pending_add_context_by_chat, chat_id)
    /\ pending_add_context_file' =
          IF ret'.kind = "Duplicate"
          THEN DictSet(pending_add_context_file, chat_id,
                       [person_id |-> ret'.id, name |-> ret'.name])
          ELSE DictPop(pending_add_context_file, chat_id)

\* if update.message and update.message.text: ... for a text that is no
\* command, with no search pending: more context for an existing contact,
\* or the context of the pending card.
webhook_text(chat_id, message_text) ==
    LET text == strip(message_text)
        from_dict == DictGet(pending_add_context_by_chat, chat_id, NoAddContext)
        from_file == DictGet(pending_add_context_file, chat_id, NoAddContext)
        add_ctx == IF from_dict # NoAddContext THEN from_dict ELSE from_file
        pending == DictGet(pending_by_chat, chat_id, NoId)
    IN /\ Truthy(message_text)
       /\ pending_add_context_by_chat' = DictPop(pending_add_context_by_chat, chat_id)
       /\ pending_add_context_file' =
             IF from_dict = NoAddContext
             THEN DictPop(pending_add_context_file, chat_id)
             ELSE pending_add_context_file
       /\ IF add_ctx # NoAddContext
          THEN /\ add_context(add_ctx.person_id, text)
               /\ UNCHANGED pending_by_chat
          ELSE IF pending = NoId
          THEN /\ call' = Call("webhook_text", NoId, text)
               /\ ret' = Ret("NoPending", NoId, <<>>)
               /\ listed_before' = <<>>
               /\ repo_accessed' = FALSE
               /\ UNCHANGED <<pending_id, pending_card, resolver, by_id, order,
                              contact_names, backend, nodes, knows, n_pending,
                              n_persons, n_appends, replaced, consumed,
                              pending_by_chat>>
          ELSE /\ submit_context(pending, text)
               /\ pending_by_chat' = DictPop(pending_by_chat, chat_id)

\* The telegram Contacts shared: two people, and the first of them once
\* more without a first name.
Contacts ==
    { [first_name |-> <<"A">>, last_name |-> None,
       phone_number |-> <<"+", "1", "2">>, user_id |-> None],
      [first_name |-> <<" ", "B">>, last_name |-> <<"C">>,
       phone_number |-> <<"+", "3">>, user_id |-> <<"7">>],
      [first_name |-> <<" ">>, last_name |-> None,
       phone_number |-> <<"+", "1", " ", "2">>, user_id |-> None] }

\* Message texts (no commands).
MessageTexts == { <<" ", "Y", " ">>, <<" ">> }

InitWebhook ==
    /\ InitService
    /\ backend = "neo4j"
    /\ by_id = <<>>
    /\ order = <<>>
    /\ contact_names = <<>>
    /\ resolver = [present |-> FALSE, target |-> NoId]
    /\ nodes = <<OwnerNode(<<"9">>)>>
    /\ knows = <<>>
    /\ listed_before = <<>>

NextWebhook ==
    \/ \E chat_id \in Chats, c \in Contacts :
          webhook_contact(chat_id, c)
          /\ UNCHANGED <<identity_vars, owners_vars, flow_vars, graph_vars>>
    \/ \E chat_id \in Chats, message_text \in MessageTexts :
          webhook_text(chat_id, message_text)
          /\ UNCHANGED <<identity_vars, owners_vars, flow_vars, graph_vars>>

SpecWebhook == InitWebhook /\ [][NextWebhook]_vars

---------------------------------------------------------------------------
(* Two Neo4jContactRepository objects (user_a, user_b) over one graph, as  *)
(* in test_multi_user_isolation.                                           *)

\* The user_id of the second repository.
OwnerB == 201

Owners == { OwnerId, OwnerB }

RepoCall(user_id, op, cid, text) ==
    [op |-> op, id |-> cid, text |-> text, user_id |-> user_id]

\* What the owners spec leaves alone.
owners_frame == <<pending_id, pending_card, resolver, by_id, order,
                  contact_names, backend, n_pending, replaced, consumed,
                  listed_before, repo_accessed, identity_vars, webhook_vars,
                  flow_vars, graph_vars>>

\* The ids a link_to_existing_id can name: none, a Person of the graph, the
\* owner itself, an id that is no Person.
LinkIds(user_id) == { NoId, WrongId, user_id } \cup NodeIds(nodes)

\* The cards of the two owners: one phone written in two ways, with and
\* without a telegram id, and a card with a telegram id alone.
OwnerCards ==
    { [name |-> <<"A">>, phone_number |-> <<"+", "1", "2">>, telegram_user_id |-> None],
      [name |-> <<" ", "B">>, phone_number |-> <<"+", "1", " ", "2">>, telegram_user_id |-> <<"7">>],
      [name |-> <<"A">>, phone_number |-> None, telegram_user_id |-> <<" ", "7">>] }

\* The ids a caller can ask a repository for.
AskedIds == NodeIds(nodes) \cup { WrongId }

\* What a repository answers to its user: the list, the person of every id
\* and the duplicate of every card.
ViewOf(user_id) ==
    [list |-> neo4j_list_all(user_id),
     get |-> [pid \in AskedIds |-> neo4j_get_by_id(user_id, pid)],
     dup |-> [card \in OwnerCards |-> neo4j_find_duplicate(user_id, card)]]

Views == [user_id \in Owners |-> ViewOf(user_id)]

\* repo.add(person, link_to_existing_id=link).  The statement is one
\* transaction: where the unique constraint on telegram_id is in force and
\* the CREATE breaks it, nothing is written.
repo_add(user_id, card, link0, constrained) ==
    LET person == person_of(card, <<"Y">>)
        graph == neo4j_add(user_id, nodes, knows, person, link0, n_persons + 1)
        link == IF link0 = EmptyId THEN NoId ELSE link0
        telegram_id == OrElse(strip(OrElse(person.external_id, <<>>)), None)
        raises == /\ constrained
                  /\ link = NoId
                  /\ telegram_id # None
                  /\ ~person_telegram_id_unique(nodes, telegram_id)
        linked == Len(graph[2]) > Len(knows)
    IN /\ n_persons < MaxAdds
       /\ call' = RepoCall(user_id, "add", person.id, None)
       /\ n_persons' = n_persons + 1
       /\ view_before' = Views
       /\ IF raises
          THEN /\ ret' = Ret("ConstraintError", NoId, <<>>)
               /\ UNCHANGED <<nodes, knows, added_by>>
          ELSE /\ ret' = Ret("None", NoId, <<>>)
               /\ nodes' = graph[1]
               /\ knows' = graph[2]
               /\ added_by' =
                     IF linked
                     THEN DictSet(added_by, user_id,
                                  DictGet(added_by, user_id, {})
                                  \cup {graph[2][Len(graph[2])].to})
                     ELSE added_by
       /\ UNCHANGED <<n_appends, owners_frame>>

\* repo.append_context(person_id, additional_text); n_appends counts the
\* appends that found a relationship to write to.
repo_append_context(user_id, pid, additional_text) ==
    /\ n_appends < MaxAppends
    /\ call' = RepoCall(user_id, "append_context", NoId, None)
    /\ ret' = Ret(IF neo4j_get_rows(user_id, pid) # {} THEN "True" ELSE "False",
                  NoId, <<>>)
    /\ knows' = neo4j_append_context(user_id, pid, additional_text)
    /\ n_appends' = IF knows' # knows THEN n_appends + 1 ELSE n_appends
    /\ view_before' = Views
    /\ UNCHANGED <<nodes, n_persons, added_by, owners_frame>>

\* repo.get_by_id(person_id), repo.find_duplicate(card) and repo.list_all():
\* MATCH ... RETURN statements, which write nothing.  What they answer to
\* every id and every card is ViewOf(user_id).
repo_read(user_id) ==
    /\ call' = RepoCall(user_id, "read", NoId, None)
    /\ ret' = Ret("None", NoId, <<>>)
    /\ view_before' = Views
    /\ UNCHANGED <<nodes, knows, n_persons, n_appends, added_by, owners_frame>>

\* The contact user_b stored before: the phone +12, no telegram id.
ContactOfB ==
    MkPerson(ExistingId, <<"C">>, <<"+", "1", "2">>, None,
             MkContext(ExistingId + 1, <<"p">>))

\* The graph the two repositories are built over and the ids stored
\* through them so far: a clean graph, or both users registered and
\* user_b knowing ContactOfB.
OwnerGraphs ==
    { [graph |-> <<(<<>>), (<<>>)>>, added_by |-> <<>>],
      [graph |-> neo4j_add(OwnerB,
                           <<OwnerNode(<<"9">>),
                             MkNode(OwnerB, <<"B">>, None, None, LinkedExt, 0, TRUE)>>,
                           <<>>, ContactOfB, NoId, 0),
       added_by |-> (OwnerB :> {ExistingId})] }

InitOwners ==
    /\ pending_id = NoId
    /\ pending_card = NoCard
    /\ n_pending = 0
    /\ n_persons = 0
    /\ n_appends = 0
    /\ call = Call("init", NoId, None)
    /\ ret = Ret("None", NoId, <<>>)
    /\ replaced = {}
    /\ consumed = {}
    /\ repo_accessed = FALSE
    /\ resolving = [c \in Callers |-> IdleCall]
    /\ returns = <<>>
    /\ n_resolves = 0
    /\ sequential = TRUE
    /\ pending_by_chat = <<>>
    /\ pending_add_context_by_chat = <<>>
    /\ pending_add_context_file = <<>>
    /\ backend = "neo4j"
    /\ by_id = <<>>
    /\ order = <<>>
    /\ contact_names = <<>>
    /\ resolver = [present |-> FALSE, target |-> NoId]
    /\ listed_before = <<>>
    /\ view_before = <<>>
    /\ machine = <<>>
    /\ session = <<>>
    /\ step = <<>>
    /\ flow = <<>>
    /\ state = <<>>
    /\ run = <<>>
    /\ \E setup \in OwnerGraphs :
          /\ nodes = setup.graph[1]
          /\ knows = setup.graph[2]
          /\ added_by = setup.added_by

NextOwners ==
    \/ \E user_id \in Owners, card \in OwnerCards :
          \E link \in LinkIds(user_id) :
             \E constrained \in IF link = NoId /\ card.telegram_user_id # None
                                THEN BOOLEAN ELSE { FALSE } :
                repo_add(user_id, card, link, constrained)
    \/ \E user_id \in Owners, pid \in AskedIds :
          repo_append_context(user_id, pid, <<" ", "z">>)
    \/ \E user_id \in Owners : repo_read(user_id)

SpecOwners == InitOwners /\ [][NextOwners]_vars

---------------------------------------------------------------------------
(* identity.py: the account profile of the owner Person and the read-only  *)
(* lookup by channel and external id.                                      *)

\* entities.NAME_MAX_LENGTH, entities.BIO_MAX_LENGTH
NAME_MAX_LENGTH == 500

BIO_MAX_LENGTH == 2000

\* "x" * n
Xs(n) == [i \in 1..n |-> "x"]

\* A Person node with the bio property.
WithBio(p, bio) ==
    [f \in (DOMAIN p) \cup {"bio"} |-> IF f = "bio" THEN bio ELSE p[f]]

\* A check that lets every length through.
over_length_never(name, bio) == FALSE

\* if name and len(name) > NAME_MAX_LENGTH: raise ValueError(...), and the
\* same for bio.
over_length(name, bio) ==
    \/ Truthy(name) /\ Len(name) > NAME_MAX_LENGTH
    \/ Truthy(bio) /\ Len(bio) > BIO_MAX_LENGTH

\* A SET that writes the three parameters whatever they are.
update_profile_query_overwriting(ns, user_id, name, bio, phone_number) ==
    [i \in 1..Len(ns) |->
        IF ns[i].id = user_id /\ ns[i].registered
        THEN [ns[i] EXCEPT !.name = name, !.bio = bio,
                           !.phone_number = phone_number]
        ELSE ns[i]]

\* _UPDATE_PROFILE_QUERY
update_profile_query(ns, user_id, name, bio, phone_number) ==
    [i \in 1..Len(ns) |->
        IF ns[i].id = user_id /\ ns[i].registered
        THEN [ns[i] EXCEPT
                 !.name = IF name # None THEN name ELSE @,
                 !.bio = IF bio # None THEN bio ELSE @,
                 !.phone_number = IF phone_number # None THEN phone_number ELSE @]
        ELSE ns[i]]

\* The parameters update_account_profile hands to the query.
profile_name(name) == IF name # None THEN OrElse(strip(name), None) ELSE None

profile_bio(bio) == IF bio # None THEN OrElse(strip(bio), None) ELSE None

profile_phone(phone_number) ==
    IF phone_number # None
    THEN normalize_phone(OrElse(strip(phone_number), <<>>))
    ELSE None

ProfileCall(op, user_id, name, bio, phone_number) ==
    [op |-> op, id |-> user_id, name |-> name, bio |-> bio,
     phone_number |-> phone_number]

\* update_account_profile(driver, user_id, name=..., bio=..., phone_number=...)
update_account_profile(user_id, name, bio, phone_number) ==
    /\ call' = ProfileCall("update_account_profile", user_id, name, bio,
                           phone_number)
    /\ IF name = None /\ bio = None /\ phone_number = None
       THEN /\ ret' = Ret("None", NoId, <<>>)
            /\ UNCHANGED nodes
       ELSE IF over_length(profile_name(name), profile_bio(bio))
       THEN /\ ret' = Ret("ValueError", NoId, <<>>)
            /\ UNCHANGED nodes
       ELSE /\ ret' = Ret("None", NoId, <<>>)
            /\ nodes' = update_profile_query(nodes, user_id, profile_name(name),
                                             profile_bio(bio),
                                             profile_phone(phone_number))
    /\ UNCHANGED profile_frame

\* _GET_PROFILE_QUERY and AccountProfile(...)
get_account_profile(user_id) ==
    LET hits == { i \in 1..Len(nodes) :
                     nodes[i].id = user_id /\ nodes[i].registered }
        p == nodes[CHOOSE i \in hits : \A j \in hits : i <= j]
    IN /\ call' = ProfileCall("get_account_profile", user_id, None, None, None)
       /\ ret' = IF hits = {} THEN Ret("None", NoId, <<>>)
                 ELSE [kind |-> "AccountProfile", id |-> user_id,
                       name |-> profile_name(p.name),
                       bio |-> profile_bio(p.bio),
                       phone_number |-> p.phone_number]
       /\ UNCHANGED <<nodes, profile_frame>>

\* get_person_id_by_channel_external_id as an operation.
lookup_existing(channel, external_id) ==
    /\ call' = [op |-> "lookup_existing", channel |-> channel,
                external_id |-> external_id]
    /\ ret' = Ret("person_id",
                  get_person_id_by_channel_external_id(channel, external_id),
                  <<>>)
    /\ UNCHANGED <<nodes, profile_frame>>

\* Names, bios and phones passed to update_account_profile: absent, blank,
\* padded, at the limit once trimmed, and one character over it.
ProfileNames ==
    { None, <<" ">>, <<" ", "N", " ">>,
      <<" ">> \o Xs(NAME_MAX_LENGTH) \o <<" ">>,
      <<" ">> \o Xs(NAME_MAX_LENGTH + 1) }

ProfileBios ==
    { None, <<" ", "b">>,
      <<" ">> \o Xs(BIO_MAX_LENGTH) \o <<" ">>,
      Xs(BIO_MAX_LENGTH + 1) \o <<" ">> }

ProfilePhones == { None, <<" ", "+", "1", " ", "2">> }

\* The channels and external ids looked up.
LookupChannels == { CHANNEL_TELEGRAM, <<" ", "t">>, <<>>, <<"w">>, None }

LookupIds == { <<"7">>, <<" ", "9", " ">>, <<"8">>, <<>>, <<" ">>, None }

\* The user ids named: the owner, a contact that never signed up, no Person.
ProfileUsers == { OwnerId, PersonBase + 1, WrongId }

\* The graph: the owner (telegram id 9, named at signup) with or without a
\* bio, and a contact with the telegram id 7 that never signed up.
ProfileGraphs ==
    { <<WithBio(OwnerNode(<<"9">>), bio),
        WithBio(MkNode(PersonBase + 1, <<>>, <<"+", "3">>, LinkedExt, LinkedExt,
                       1, FALSE), None)>> : bio \in { None, <<"o">> } }

InitProfile ==
    /\ InitService
    /\ backend = "neo4j"
    /\ by_id = <<>>
    /\ order = <<>>
    /\ contact_names = <<>>
    /\ resolver = [present |-> FALSE, target |-> NoId]
    /\ nodes \in ProfileGraphs
    /\ knows = <<>>
    /\ listed_before = <<>>

NextProfile ==
    \/ \E user_id \in ProfileUsers \ { WrongId }, name \in ProfileNames,
          bio \in ProfileBios, phone_number \in ProfilePhones :
          update_account_profile(user_id, name, bio, phone_number)
    \/ \E user_id \in ProfileUsers : get_account_profile(user_id)
    \/ \E channel \in LookupChannels, external_id \in LookupIds :
          lookup_existing(channel, external_id)

SpecProfile == InitProfile /\ [][NextProfile]_vars

---------------------------------------------------------------------------
(* The conversation flow runner: run_xstate_flow over a transition table,  *)
(* the ContactService it drives and the session its caller keeps.          *)

\* Effects run_xstate_flow runs at most before it stops chaining.
max_steps == 50

\* Python's None for a state, an event symbol or an outcome.
NoState == "None"

WAITING_STATES ==
    { "idle", "awaiting_context", "awaiting_search", "awaiting_add_context" }

\* The slots a conversation holds only while an interaction is under way.
TransientSlots == { "pending_id", "person_id", "contact_name", "search_pending" }

CallbackSymbols ==
    [cmd_list |-> "CALLBACK_LIST",
     cmd_search |-> "CALLBACK_SEARCH",
     cmd_add |-> "CALLBACK_ADD",
     addmore |-> "CALLBACK_ADDMORE",
     addctx_done |-> "CALLBACK_ADDCTX_DONE",
     person_id |-> "CALLBACK_PERSON_ID"]

TextSymbols ==
    [command_start |-> "TEXT_COMMAND_START",
     command_help |-> "TEXT_COMMAND_HELP",
     command_list |-> "TEXT_COMMAND_LIST",
     command_search |-> "TEXT_COMMAND_SEARCH",
     command_add_contact |-> "TEXT_COMMAND_ADD_CONTACT",
     search_keyword |-> "TEXT_SEARCH_KEYWORD",
     add_context_text |-> "TEXT_ADD_CONTEXT",
     pending_context_text |-> "TEXT_PENDING_CONTEXT",
     unsupported |-> "TEXT_UNSUPPORTED"]

\* The event symbol of an adapter event, NoState when it has none.
event_to_xstate(event) ==
    IF event.type = "contact_shared" THEN "CONTACT_SHARED"
    ELSE IF event.type = "callback"
         THEN IF event.subtype \in DOMAIN CallbackSymbols
              THEN CallbackSymbols[event.subtype] ELSE NoState
    ELSE IF event.type = "text"
         THEN IF event.subtype \in DOMAIN TextSymbols
              THEN TextSymbols[event.subtype] ELSE NoState
    ELSE NoState

\* A machine config: its top-level keys, its initial state, its states and
\* their edges <<state, event, target>>.
Config(keys, initial, states, edges) ==
    [keys |-> keys, initial |-> initial, states |-> states, edges |-> edges]

\* A well-formed table: its states are the ones its edges name.
Machine(initial, edges) ==
    Config({ "initial", "states" }, initial,
           { e[1] : e \in edges } \cup { e[3] : e \in edges }, edges)

\* What load_machine raises.
LoadError == [keys |-> {}, initial |-> NoState, states |-> {}, edges |-> {}]

\* The config load_machine returns: any that has the two keys.
load_machine(config) ==
    IF ~({ "initial", "states" } \subseteq config.keys) THEN LoadError
    ELSE config

Targets(m, state_value, event) ==
    { e[3] : e \in { d \in m.edges : d[1] = state_value /\ d[2] = event } }

\* The next state for (state_value, event), NoState when the table has no
\* edge for them or the edge leads back to state_value.
transition(m, state_value, event) ==
    IF Targets(m, state_value, event) = {} THEN NoState
    ELSE LET next_state == CHOOSE t \in Targets(m, state_value, event) : TRUE
         IN IF next_state = state_value THEN NoState ELSE next_state

\* The edges of the shipped table that the tests pin down, and the one the
\* pending-card test runs through.
AttestedEdges ==
    { <<"idle", "TEXT_COMMAND_START", "welcome">>,
      <<"welcome", "DONE", "idle">>,
      <<"idle", "CONTACT_SHARED", "receive_contact">>,
      <<"receive_contact", "PENDING", "awaiting_context">> }

\* What every waiting state of the Telegram table answers to: the commands,
\* the buttons and a shared card.
CommandEdges(state_value) ==
    { <<state_value, "TEXT_COMMAND_START", "welcome">>,
      <<state_value, "TEXT_COMMAND_HELP", "welcome">>,
      <<state_value, "TEXT_COMMAND_LIST", "do_list">>,
      <<state_value, "CALLBACK_LIST", "do_list">>,
      <<state_value, "TEXT_COMMAND_SEARCH", "prompt_search">>,
      <<state_value, "CALLBACK_SEARCH", "prompt_search">>,
      <<state_value, "TEXT_COMMAND_ADD_CONTACT", "prompt_add_contact">>,
      <<state_value, "CALLBACK_ADD", "prompt_add_contact">>,
      <<state_value, "CALLBACK_PERSON_ID", "prompt_add_context_for_contact">>,
      <<state_value, "CALLBACK_ADDMORE", "prompt_add_more_context">>,
      <<state_value, "CALLBACK_ADDCTX_DONE", "add_context_done">>,
      <<state_value, "CONTACT_SHARED", "receive_contact">>,
      <<state_value, "TEXT_UNSUPPORTED", "unsupported_msg">> }

\* Where the relay states of the Telegram table go on each outcome.
RelayEdges ==
    { <<"welcome", "DONE", "idle">>,
      <<"unsupported_msg", "DONE", "idle">>,
      <<"receive_contact", "PENDING", "awaiting_context">>,
      <<"receive_contact", "DUPLICATE", "awaiting_add_context">>,
      <<"receive_contact", "INVALID", "idle">>,
      <<"do_submit_context", "CREATED", "contact_created">>,
      <<"do_submit_context", "PENDING_NOT_FOUND", "idle">>,
      <<"contact_created", "DONE", "idle">>,
      <<"do_list", "EMPTY", "idle">>,
      <<"do_list", "HAS_RESULTS", "idle">>,
      <<"prompt_search", "DONE", "awaiting_search">>,
      <<"do_search", "EMPTY", "idle">>,
      <<"do_search", "HAS_RESULTS", "idle">>,
      <<"prompt_add_contact", "DONE", "idle">>,
      <<"prompt_add_context_for_contact", "FOUND", "awaiting_add_context">>,
      <<"prompt_add_context_for_contact", "NOT_FOUND", "idle">>,
      <<"prompt_add_more_context", "FOUND", "awaiting_add_context">>,
      <<"prompt_add_more_context", "NOT_FOUND", "idle">>,
      <<"do_add_context", "SUCCESS", "idle">>,
      <<"do_add_context", "NOT_FOUND", "idle">>,
      <<"do_add_context", "INVALID", "awaiting_add_context">>,
      <<"add_context_done", "DONE", "idle">>,
      <<"send_contact_first", "DONE", "idle">> }

\* The Telegram table: every waiting state answers the commands, text goes
\* to what the state waits for, and each interaction ends in idle.
TelegramMachine ==
    Machine("idle",
            UNION { CommandEdges(s) : s \in WAITING_STATES }
            \cup RelayEdges
            \cup { <<"idle", "TEXT_PENDING_CONTEXT", "send_contact_first">>,
                   <<"awaiting_context", "TEXT_PENDING_CONTEXT", "do_submit_context">>,
                   <<"awaiting_search", "TEXT_SEARCH_KEYWORD", "do_search">>,
                   <<"awaiting_add_context", "TEXT_ADD_CONTEXT", "do_add_context">> })

\* A table with the tested edges alone: receive_contact has no edge for
\* DUPLICATE or INVALID, and a state the runner has no effect for follows
\* the help command.
SparseMachine ==
    Machine("idle",
            AttestedEdges \cup { <<"idle", "TEXT_COMMAND_HELP", "help_topics">> })

\* A malformed table: two relay states that hand over to each other.
CyclicMachine ==
    Machine("idle",
            AttestedEdges
            \cup { <<"idle", "TEXT_UNSUPPORTED", "unsupported_msg">>,
                   <<"unsupported_msg", "DONE", "prompt_add_contact">>,
                   <<"prompt_add_contact", "DONE", "unsupported_msg">> })

\* A config whose initial state is none of its states and one of whose
\* edges leads to a state it does not have.
DanglingConfig ==
    Config({ "initial", "states" }, "start",
           { "idle", "welcome", "receive_contact", "awaiting_context" },
           AttestedEdges \cup { <<"idle", "TEXT_COMMAND_LIST", "missing_state">> })

\* The machine files a deployment can point XSTATE_MACHINE_PATH at: the
\* tables above, a malformed one, and documents without the required keys.
MachineConfigs ==
    { TelegramMachine, SparseMachine, CyclicMachine, DanglingConfig,
      [TelegramMachine EXCEPT !.keys = { "states" }],
      [TelegramMachine EXCEPT !.keys = { "initial" }] }

\* The tables run_xstate_flow is given: what load_machine returned.
Machines ==
    { load_machine(config) : config \in MachineConfigs } \ { LoadError }

---------------------------------------------------------------------------
(* Output actions and slots. *)

\* A message of the flow file, with the name its template is filled with.
format_message(message_id, name) == [message |-> message_id, name |-> name]

SendMessage(text, keyboard) ==
    [type |-> "SendMessage", text |-> text, keyboard |-> keyboard]

SendContactList(summaries) ==
    [type |-> "SendContactList", summaries |-> summaries]

SetSlots(slots) == [type |-> "SetSlots", slots |-> slots]

ClearSlots(keys) == [type |-> "ClearSlots", keys |-> keys]

\* slots.get(key) or "".
SlotOr(slots, key) ==
    IF key \in DOMAIN slots /\ slots[key] # NoId THEN slots[key] ELSE EmptyId

\* An application that takes a SetSlots and leaves the keys of a ClearSlots.
apply_action_no_clear(slots, a) ==
    IF a.type = "SetSlots"
    THEN [k \in DOMAIN slots \cup DOMAIN a.slots |->
             IF k \in DOMAIN a.slots THEN a.slots[k] ELSE slots[k]]
    ELSE slots

\* slots.update(a.slots) for a SetSlots, slots.pop(k, None) for the keys of
\* a ClearSlots, nothing for the other actions.
apply_action(slots, a) ==
    IF a.type = "SetSlots"
    THEN [k \in DOMAIN slots \cup DOMAIN a.slots |->
             IF k \in DOMAIN a.slots THEN a.slots[k] ELSE slots[k]]
    ELSE IF a.type = "ClearSlots"
    THEN [k \in DOMAIN slots \ a.keys |-> slots[k]]
    ELSE slots

\* The slots after the actions of one effect, in the order produced.
RECURSIVE apply_actions(_, _)
apply_actions(slots, actions) ==
    IF actions = <<>> THEN slots
    ELSE apply_actions(apply_action(slots, Head(actions)), Tail(actions))

---------------------------------------------------------------------------
(* The effects of the relay states. *)

Payload(name, phone_number, telegram_user_id, text, person_id) ==
    [name |-> name, phone_number |-> phone_number,
     telegram_user_id |-> telegram_user_id, text |-> text,
     person_id |-> person_id]

Event(type, subtype, payload) ==
    [type |-> type, subtype |-> subtype, payload |-> payload]

\* The card the receive_contact effect hands to the service.
card_of_payload(payload) ==
    [name |-> strip(OrElse(payload.name, <<>>)),
     phone_number |-> payload.phone_number,
     telegram_user_id |-> payload.telegram_user_id]

\* payload.get("person_id") or "".
person_id_of(payload) ==
    IF payload.person_id = NoId THEN EmptyId ELSE payload.person_id

\* The relay states whose effect calls the ContactService for this payload.
calls_service(state_value, payload) ==
    \/ state_value \in { "receive_contact", "do_submit_context", "do_list",
                         "do_search", "do_add_context" }
    \/ /\ state_value \in { "prompt_add_context_for_contact",
                            "prompt_add_more_context" }
       /\ person_id_of(payload) # EmptyId

\* The call the effect of state_value makes on the ContactService, if any.
service_call(state_value, payload, slots) ==
    IF ~calls_service(state_value, payload)
    THEN UNCHANGED <<service_vars, nodes>>
    ELSE IF state_value = "receive_contact"
    THEN receive_contact_card(card_of_payload(payload))
    ELSE IF state_value = "do_submit_context"
    THEN submit_context(SlotOr(slots, "pending_id"), OrElse(payload.text, <<>>))
    ELSE IF state_value = "do_list"
    THEN list_contacts
    ELSE IF state_value = "do_search"
    THEN search_contacts(OrElse(payload.text, <<>>))
    ELSE IF state_value = "do_add_context"
    THEN add_context(SlotOr(slots, "person_id"), OrElse(payload.text, <<>>))
    ELSE get_contact(person_id_of(payload))

\* The summaries the do_list and do_search effects get back.
summaries_of(state_value, payload) ==
    IF state_value = "do_list" THEN list_contacts_result
    ELSE search_result(OrElse(payload.text, <<>>))

\* A receive_contact effect that keeps the pending id to itself.
receive_contact_effect_no_slot(result) ==
    IF result.kind = "PendingContact"
    THEN [actions |-> << SendMessage(format_message("awaiting_context_prompt", None), None) >>,
          outcome |-> "PENDING"]
    ELSE IF result.kind = "Duplicate"
    THEN [actions |-> << SetSlots([person_id |-> result.id, contact_name |-> result.name]),
                         SendMessage(format_message("duplicate_offer_add_context", result.name), None) >>,
          outcome |-> "DUPLICATE"]
    ELSE [actions |-> << SendMessage(format_message("reason", None), None) >>,
          outcome |-> "INVALID"]

receive_contact_effect(result) ==
    IF result.kind = "PendingContact"
    THEN [actions |-> << SetSlots([pending_id |-> result.id]),
                         SendMessage(format_message("awaiting_context_prompt", None), None) >>,
          outcome |-> "PENDING"]
    ELSE IF result.kind = "Duplicate"
    THEN [actions |-> << SetSlots([person_id |-> result.id, contact_name |-> result.name]),
                         SendMessage(format_message("duplicate_offer_add_context", result.name), None) >>,
          outcome |-> "DUPLICATE"]
    ELSE [actions |-> << SendMessage(format_message("reason", None), None) >>,
          outcome |-> "INVALID"]

\* A do_submit_context effect that stays silent when nothing was pending.
do_submit_context_effect_silent(result) ==
    IF result.kind = "ContactCreated"
    THEN [actions |-> << ClearSlots({"pending_id"}),
                         SetSlots([person_id |-> result.id, contact_name |-> result.name]),
                         SendMessage(format_message("contact_created", result.name), "add_more_or_done") >>,
          outcome |-> "CREATED"]
    ELSE [actions |-> << ClearSlots({"pending_id"}) >>,
          outcome |-> "PENDING_NOT_FOUND"]

do_submit_context_effect(result) ==
    IF result.kind = "ContactCreated"
    THEN [actions |-> << ClearSlots({"pending_id"}),
                         SetSlots([person_id |-> result.id, contact_name |-> result.name]),
                         SendMessage(format_message("contact_created", result.name), "add_more_or_done") >>,
          outcome |-> "CREATED"]
    ELSE [actions |-> << ClearSlots({"pending_id"}),
                         SendMessage(format_message("pending_lost", None), None) >>,
          outcome |-> "PENDING_NOT_FOUND"]

\* The do_list effect (clear = {}) and the do_search effect.
summaries_effect(summaries, clear, empty_message) ==
    LET cleared == IF clear = {} THEN <<>> ELSE << ClearSlots(clear) >> IN
    IF summaries = <<>>
    THEN [actions |-> cleared \o << SendMessage(format_message(empty_message, None), None) >>,
          outcome |-> "EMPTY"]
    ELSE [actions |-> cleared \o << SendContactList(summaries) >>,
          outcome |-> "HAS_RESULTS"]

\* The two effects that look a contact up before more context is asked for.
prompt_effect(payload, result, message_id) ==
    IF person_id_of(payload) # EmptyId /\ result.kind = "ContactSummary"
    THEN [actions |-> << SetSlots([person_id |-> person_id_of(payload),
                                   contact_name |-> result.name]),
                         SendMessage(format_message(message_id, result.name), None) >>,
          outcome |-> "FOUND"]
    ELSE [actions |-> << SendMessage(format_message("add_context_not_found", None), None) >>,
          outcome |-> "NOT_FOUND"]

do_add_context_effect(result) ==
    IF result.kind = "AddContextSuccess"
    THEN [actions |-> << SendMessage(format_message("add_more_or_done", None), "add_more_or_done") >>,
          outcome |-> "SUCCESS"]
    ELSE IF result.kind = "AddContextNotFound"
    THEN [actions |-> << SendMessage(format_message("add_context_not_found", None), None) >>,
          outcome |-> "NOT_FOUND"]
    ELSE [actions |-> << SendMessage(format_message("add_context_empty", None), None) >>,
          outcome |-> "INVALID"]

\* An effect that says nothing and is DONE.
message_effect_silent(message_id, name, keyboard) ==
    [actions |-> <<>>, outcome |-> "DONE"]

\* One message and DONE.
message_effect(message_id, name, keyboard) ==
    [actions |-> << SendMessage(format_message(message_id, name), keyboard) >>,
     outcome |-> "DONE"]

\* The actions and the outcome of the effect of state_value, result being
\* what the service answered; a state without an effect has no outcome.
run_effect(state_value, payload, slots, result) ==
    IF state_value = "welcome"
    THEN message_effect("welcome",
                        IF "contact_name" \in DOMAIN slots
                        THEN slots["contact_name"] ELSE None,
                        "welcome")
    ELSE IF state_value = "unsupported_msg"
    THEN message_effect("unsupported", None, "main")
    ELSE IF state_value = "receive_contact"
    THEN receive_contact_effect(result)
    ELSE IF state_value = "do_submit_context"
    THEN do_submit_context_effect(result)
    ELSE IF state_value = "contact_created"
    THEN [actions |-> <<>>, outcome |-> "DONE"]
    ELSE IF state_value = "do_list"
    THEN summaries_effect(summaries_of(state_value, payload), {}, "empty_list")
    ELSE IF state_value = "prompt_search"
    THEN [actions |-> << SendMessage(format_message("search_prompt", None), None),
                         SetSlots([search_pending |-> TRUE]) >>,
          outcome |-> "DONE"]
    ELSE IF state_value = "do_search"
    THEN summaries_effect(summaries_of(state_value, payload),
                          {"search_pending"}, "no_match")
    ELSE IF state_value = "prompt_add_contact"
    THEN message_effect("add_contact_howto", None, "main")
    ELSE IF state_value = "prompt_add_context_for_contact"
    THEN prompt_effect(payload, result, "add_context_button_prompt")
    ELSE IF state_value = "prompt_add_more_context"
    THEN prompt_effect(payload, result, "add_more_context_again")
    ELSE IF state_value = "do_add_context"
    THEN do_add_context_effect(result)
    ELSE IF state_value = "add_context_done"
    THEN [actions |-> << ClearSlots({"person_id", "contact_name"}),
                         SendMessage(format_message("add_context_done", None), None) >>,
          outcome |-> "DONE"]
    ELSE IF state_value = "send_contact_first"
    THEN message_effect("send_contact_first", None, "main")
    ELSE [actions |-> <<>>, outcome |-> NoState]

---------------------------------------------------------------------------
(* run_xstate_flow, one pass of its loop at a time.  No other operation of *)
(* the conversation runs between two passes of one call.                   *)

\* A call that starts from an empty slot map whatever it was given.
Locals_fresh_slots(event, state_value, context) ==
    [pc |-> "running", exit |-> "none", event |-> event,
     state_value |-> state_value, context |-> context,
     current |-> IF state_value = NoState THEN machine.initial ELSE state_value,
     xevent |-> NoState, steps |-> 0, slots |-> <<>>,
     all_actions |-> <<>>, effects |-> 0, calls |-> 0]

\* The locals of a run_xstate_flow call before the loop, with what it was
\* given: the state it starts in is state_value or the table's initial state.
Locals(event, state_value, context) ==
    [pc |-> "running", exit |-> "none", event |-> event,
     state_value |-> state_value, context |-> context,
     current |-> IF state_value = NoState THEN machine.initial ELSE state_value,
     xevent |-> NoState, steps |-> 0, slots |-> context,
     all_actions |-> <<>>, effects |-> 0, calls |-> 0]

\* return all_actions, current, slots: the caller keeps state and slots for
\* the next event.  exit names the statement that left the loop.
flow_return(loc, exit) ==
    /\ step' = [loc EXCEPT !.pc = "returned", !.exit = exit]
    /\ session' = [state_value |-> loc.current, slots |-> loc.slots]

\* A loop with no limit: the pass after the last one goes on.
loop_unlimited(loc) ==
    /\ step' = loc
    /\ UNCHANGED session

\* The while condition fails after max_steps passes: the function returns.
loop_exhausted(loc) == flow_return(loc, "limit")

\* transition(...) is None: break.
no_edge(loc, steps) == flow_return([loc EXCEPT !.steps = steps], "no_edge")

\* One pass of the loop.
loop_body(loc) ==
    LET steps == loc.steps + 1
        xevent == IF steps = 1 THEN event_to_xstate(loc.event) ELSE loc.xevent
        next_state == transition(machine, loc.current, xevent)
        payload == loc.event.payload
    IN IF xevent = NoState
       THEN /\ flow_return([loc EXCEPT !.steps = steps], "unmapped")
            /\ UNCHANGED <<service_vars, nodes>>
       ELSE IF next_state = NoState
       THEN /\ no_edge([loc EXCEPT !.xevent = xevent], steps)
            /\ UNCHANGED <<service_vars, nodes>>
       ELSE IF next_state \in WAITING_STATES
       THEN /\ flow_return([loc EXCEPT !.steps = steps, !.xevent = xevent,
                                       !.current = next_state], "waiting")
            /\ UNCHANGED <<service_vars, nodes>>
       ELSE /\ service_call(next_state, payload, loc.slots)
            /\ LET effect == run_effect(next_state, payload, loc.slots, ret')
                   after == [loc EXCEPT
                                !.steps = steps,
                                !.current = next_state,
                                !.xevent = effect.outcome,
                                !.effects = @ + 1,
                                !.all_actions = @ \o effect.actions,
                                !.slots = apply_actions(@, effect.actions),
                                !.calls = IF calls_service(next_state, payload)
                                          THEN @ + 1 ELSE @]
               IN IF effect.outcome = NoState
                  THEN flow_return(after, "no_outcome")
                  ELSE IF steps >= max_steps
                  THEN loop_exhausted(after)
                  ELSE /\ step' = after
                       /\ UNCHANGED session

\* A call of run_xstate_flow with the state and slots the caller kept.
run_xstate_flow(event) ==
    /\ step.pc = "returned"
    /\ loop_body(Locals(event, session.state_value, session.slots))
    /\ UNCHANGED machine

\* The next pass of the loop of the call under way.
run_xstate_flow_loop ==
    /\ step.pc = "running"
    /\ loop_body(step)
    /\ UNCHANGED machine

NoPayload == Payload(None, None, None, None, NoId)

\* The person ids a button can carry: none, a stored one, one never stored.
ButtonIds == { NoId, WrongId } \cup Ids(by_id)

\* The events a conversation sends: cards, texts, buttons, and events the
\* adapter has no symbol for.
FlowEvents ==
    { Event("contact_shared", "None",
            Payload(name, <<"+", "1", "2">>, None, None, NoId)) :
        name \in { <<"A", " ">>, <<" ">> } }
    \cup { Event("text", "pending_context_text",
                 Payload(None, None, None, text, NoId)) :
             text \in { <<" ", "Y">>, <<" ">> } }
    \cup { Event("text", "search_keyword",
                 Payload(None, None, None, <<"y">>, NoId)),
           Event("text", "add_context_text",
                 Payload(None, None, None, <<"z">>, NoId)),
           Event("text", "add_context_text",
                 Payload(None, None, None, <<" ">>, NoId)) }
    \cup { Event("text", subtype, NoPayload) :
             subtype \in { "command_start", "command_help", "command_list",
                           "command_search", "unsupported", "sticker" } }
    \cup { Event("callback", "person_id",
                 Payload(None, None, None, None, pid)) : pid \in ButtonIds }
    \cup { Event("callback", subtype, NoPayload) :
             subtype \in { "addctx_done", "cmd_settings" } }
    \cup { Event("photo", "None", NoPayload) }

\* A conversation in the initial state with no slots, its service over an
\* empty in-memory repository, and one of the tables.
InitFlow ==
    /\ pending_id = NoId
    /\ pending_card = NoCard
    /\ n_pending = 0
    /\ n_persons = 0
    /\ n_appends = 0
    /\ call = Call("init", NoId, None)
    /\ ret = Ret("None", NoId, <<>>)
    /\ replaced = {}
    /\ consumed = {}
    /\ repo_accessed = FALSE
    /\ resolving = [c \in Callers |-> IdleCall]
    /\ returns = <<>>
    /\ n_resolves = 0
    /\ sequential = TRUE
    /\ pending_by_chat = <<>>
    /\ pending_add_context_by_chat = <<>>
    /\ pending_add_context_file = <<>>
    /\ added_by = <<>>
    /\ view_before = <<>>
    /\ backend = "memory"
    /\ nodes = <<>>
    /\ knows = <<>>
    /\ by_id = <<>>
    /\ order = <<>>
    /\ contact_names = <<>>
    /\ resolver = [present |-> FALSE, target |-> NoId]
    /\ listed_before = <<>>
    /\ machine \in Machines
    /\ session = [state_value |-> machine.initial, slots |-> <<>>]
    /\ step = [Locals(Event("None", "None", NoPayload), machine.initial, <<>>)
                 EXCEPT !.pc = "returned"]
    /\ flow = <<>>
    /\ state = <<>>
    /\ run = <<>>

NextFlow ==
    \/ \E event \in FlowEvents :
          /\ run_xstate_flow(event)
          /\ UNCHANGED <<identity_vars, webhook_vars, owners_vars, graph_vars>>
    \/ /\ run_xstate_flow_loop
       /\ UNCHANGED <<identity_vars, webhook_vars, owners_vars, graph_vars>>

SpecFlow == InitFlow /\ [][NextFlow]_vars

\* A call under way runs on: the loop is sequential code of one thread.
SpecFlowFair ==
    /\ SpecFlow
    /\ WF_vars(/\ run_xstate_flow_loop
               /\ UNCHANGED <<identity_vars, webhook_vars, owners_vars, graph_vars>>)

---------------------------------------------------------------------------
(* flow_loader.load_flow and flow_runner.run_flow: the node graph of the   *)
(* YAML flow document, one pass of run_flow's loop at a time.              *)

\* An edge of a node; a key the document leaves out is NoState, FALSE or {}.
\* set_slots names the slots the edge fills from the result.
GEdge(event_type, when, outcome, next, message) ==
    [event_type |-> event_type, when |-> when, outcome |-> outcome,
     next |-> next, message |-> message, message_from_result |-> FALSE,
     set_slots |-> {}, send_contact_list |-> FALSE]

GNode(id, type, edges) ==
    [id |-> id, type |-> type, edges |-> edges, message |-> NoState,
     action |-> NoState, input_from |-> NoState, clear_slots |-> {}]

FlowDoc(keys, start_node, flow_nodes) ==
    [keys |-> keys, start_node |-> start_node, nodes |-> flow_nodes]

\* What load_flow raises.
FlowError == FlowDoc({}, NoState, <<>>)

EdgesOf(doc) ==
    UNION { { doc.nodes[i].edges[j] : j \in 1..Len(doc.nodes[i].edges) } :
              i \in 1..Len(doc.nodes) }

\* The document load_flow returns, with a messages key.
load_flow(doc) ==
    LET node_ids == { doc.nodes[i].id : i \in 1..Len(doc.nodes) } \ { NoState }
    IN IF "nodes" \notin doc.keys \/ doc.nodes = <<>> THEN FlowError
       ELSE IF "start_node" \notin doc.keys THEN FlowError
       ELSE IF node_ids = {} THEN FlowError
       ELSE IF doc.start_node \notin node_ids THEN FlowError
       ELSE IF \E i \in 1..Len(doc.nodes) : doc.nodes[i].id = NoState
       THEN FlowError
       ELSE IF \E e \in EdgesOf(doc) :
                  e.next # NoState /\ e.next \notin node_ids
       THEN FlowError
       ELSE [doc EXCEPT !.keys = @ \cup { "messages" }]

NoNode == GNode(NoState, NoState, <<>>)

\* _get_node: the first node with the id, or None.
get_node(doc, node_id) ==
    LET hits == { i \in 1..Len(doc.nodes) : doc.nodes[i].id = node_id }
    IN IF hits = {} \/ node_id = NoState THEN NoNode
       ELSE doc.nodes[CHOOSE i \in hits : \A j \in hits : i <= j]

\* _run_router: the next of the first edge whose event_type and when match
\* the event, else of the first edge without an event_type, else None.
run_router(node, event) ==
    LET edges == node.edges
        hits == { i \in 1..Len(edges) :
                    /\ edges[i].next # NoState
                    /\ edges[i].event_type \in { NoState, event.type }
                    /\ edges[i].when \in { NoState, event.subtype } }
        fallback == { i \in 1..Len(edges) :
                        edges[i].next # NoState /\ edges[i].event_type = NoState }
    IN IF hits # {}
       THEN edges[CHOOSE i \in hits : \A j \in hits : i <= j].next
       ELSE IF fallback # {}
       THEN edges[CHOOSE i \in fallback : \A j \in fallback : i <= j].next
       ELSE NoState

Transition(node_id) == [type |-> "Transition", node_id |-> node_id]

\* slots.get("contact_name")
template_name(slots) ==
    IF "contact_name" \in DOMAIN slots THEN slots.contact_name ELSE None

\* The first edge with a next.
first_next(node) ==
    LET hits == { i \in 1..Len(node.edges) : node.edges[i].next # NoState }
    IN IF hits = {} THEN NoState
       ELSE node.edges[CHOOSE i \in hits : \A j \in hits : i <= j].next

\* _run_send_message: the message, the cleared slots, the transition.
run_send_message(node, slots) ==
    LET next_id == first_next(node) IN
    [actions |->
        (IF node.message # NoState
         THEN << SendMessage(format_message(node.message, template_name(slots)),
                             "None") >>
         ELSE <<>>)
        \o (IF node.clear_slots # {} THEN << ClearSlots(node.clear_slots) >>
            ELSE <<>>)
        \o (IF next_id # NoState THEN << Transition(next_id) >> ELSE <<>>),
     next_id |-> next_id]

\* _resolve_input: the payload itself, or the pending id of the slots with
\* the text of the payload, or nothing.
resolve_input(input_from, payload, slots) ==
    IF input_from = "event.payload"
    THEN [payload EXCEPT !.person_id = IF @ = NoId THEN EmptyId ELSE @]
         @@ [pending_id |-> EmptyId]
    ELSE IF input_from = "pending"
    THEN [Payload(None, None, None, payload.text, EmptyId)
             EXCEPT !.person_id = EmptyId]
         @@ [pending_id |-> SlotOr(slots, "pending_id")]
    ELSE Payload(None, None, None, None, EmptyId) @@ [pending_id |-> EmptyId]

ServiceActions ==
    { "receive_contact_card", "submit_context", "list_contacts",
      "search_contacts", "add_context", "get_contact" }

\* _call_service: the call made on the ContactService.
call_service(action, input_from, payload, slots) ==
    LET resolved == resolve_input(input_from, payload, slots)
        text == OrElse(OrElse(resolved.text, payload.text), <<>>)
        person_id == IF resolved.person_id # EmptyId THEN resolved.person_id
                     ELSE IF action = "add_context"
                     THEN SlotOr(slots, "person_id")
                     ELSE person_id_of(payload)
    IN IF action = "receive_contact_card"
       THEN receive_contact_card(
                [name |-> OrElse(resolved.name, <<>>),
                 phone_number |-> resolved.phone_number,
                 telegram_user_id |-> resolved.telegram_user_id])
       ELSE IF action = "submit_context"
       THEN submit_context(resolved.pending_id, OrElse(resolved.text, <<>>))
       ELSE IF action = "list_contacts" THEN list_contacts
       ELSE IF action = "search_contacts" THEN search_contacts(text)
       ELSE IF action = "add_context" THEN add_context(person_id, text)
       ELSE IF action = "get_contact" THEN get_contact(person_id)
       ELSE UNCHANGED <<service_vars, nodes>>

\* The summaries list_contacts and search_contacts hand back.
summaries_for(action, payload) ==
    IF action = "list_contacts" THEN list_contacts_result
    ELSE IF action = "search_contacts"
    THEN search_result(OrElse(payload.text, <<>>))
    ELSE <<>>

\* _call_service: the outcome it derives from the result.
outcome_of(action, result, summaries) ==
    IF action = "receive_contact_card"
    THEN (IF result.kind = "PendingContact" THEN "pending"
          ELSE IF result.kind = "Duplicate" THEN "duplicate" ELSE "invalid")
    ELSE IF action = "submit_context"
    THEN (IF result.kind = "ContactCreated" THEN "created"
          ELSE "pending_not_found")
    ELSE IF action \in { "list_contacts", "search_contacts" }
    THEN (IF summaries = <<>> THEN "empty" ELSE "has_results")
    ELSE IF action = "add_context"
    THEN (IF result.kind = "AddContextSuccess" THEN "success"
          ELSE IF result.kind = "AddContextNotFound" THEN "not_found"
          ELSE "invalid")
    ELSE IF action = "get_contact"
    THEN (IF result.kind = "ContactSummary" THEN "found" ELSE "not_found")
    ELSE "invalid"

\* bool(result): a result object, a non-empty list.
result_truthy(action, result, summaries) ==
    IF action \in { "list_contacts", "search_contacts" } THEN summaries # <<>>
    ELSE IF action = "get_contact" THEN result.kind = "ContactSummary"
    ELSE action \in ServiceActions

\* The slots an edge sets from result.pending_id, result.person_id and
\* result.name.
resolved_slots(keys, result) ==
    [k \in keys |-> IF k = "contact_name" THEN result.name ELSE result.id]

\* _run_call_service, after the call: the actions of the first edge with
\* the outcome, or nothing when there is none.
run_call_service(node, payload, slots, result, summaries) ==
    LET outcome == outcome_of(node.action, result, summaries)
        truthy == result_truthy(node.action, result, summaries)
        hits == { i \in 1..Len(node.edges) : node.edges[i].outcome = outcome }
        matched_edge == node.edges[CHOOSE i \in hits : \A j \in hits : i <= j]
        set == resolved_slots(matched_edge.set_slots, result)
        merged == apply_action(slots, SetSlots(set))
        name == IF truthy /\ result.kind \in { "PendingContact", "Duplicate",
                                               "ContactCreated", "ContactSummary" }
                THEN result.name ELSE template_name(merged)
    IN IF hits = {} THEN [actions |-> <<>>, next_id |-> NoState]
       ELSE [actions |->
                (IF node.clear_slots # {} THEN << ClearSlots(node.clear_slots) >>
                 ELSE <<>>)
                \o (IF matched_edge.set_slots # {} THEN << SetSlots(set) >>
                    ELSE <<>>)
                \o (IF matched_edge.message_from_result /\ truthy
                    THEN << SendMessage(format_message("reason", None), "None") >>
                    ELSE IF matched_edge.message # NoState
                    THEN << SendMessage(format_message(matched_edge.message, name),
                                        "None") >>
                    ELSE <<>>)
                \o (IF matched_edge.send_contact_list /\ truthy
                       /\ node.action \in { "list_contacts", "search_contacts" }
                    THEN << SendContactList(summaries) >> ELSE <<>>)
                \o (IF matched_edge.next # NoState
                    THEN << Transition(matched_edge.next) >> ELSE <<>>),
             next_id |-> matched_edge.next]

\* The locals of a run_flow call before the loop, with what it was given.
RunLocals(event, given) ==
    [pc |-> "running", event |-> event, given |-> given,
     current_id |-> IF given.current_node_id = NoState THEN flow.start_node
                    ELSE given.current_node_id,
     slots |-> given.slots, all_actions |-> <<>>, executed |-> 0]

\* new_state = {current_node_id, slots}; return all_actions, new_state.
run_return(loc) ==
    /\ run' = [loc EXCEPT !.pc = "returned"]
    /\ state' = [current_node_id |-> loc.current_id, slots |-> loc.slots]

\* The node an executed node hands over to: that of its Transition.
after_node(loc, ran) ==
    [loc EXCEPT !.all_actions = @ \o ran.actions,
                !.slots = apply_actions(@, ran.actions),
                !.current_id = IF ran.next_id # NoState THEN ran.next_id ELSE @,
                !.executed = @ + 1]

\* One pass of the while True loop.
run_pass(loc) ==
    LET node == get_node(flow, loc.current_id)
        payload == loc.event.payload
    IN IF node = NoNode
       THEN run_return(loc) /\ UNCHANGED <<service_vars, nodes>>
       ELSE IF node.type = "router"
       THEN /\ UNCHANGED <<service_vars, nodes>>
            /\ LET next_id == run_router(node, loc.event)
               IN IF next_id = NoState THEN run_return(loc)
                  ELSE /\ run' = [loc EXCEPT !.current_id = next_id]
                       /\ UNCHANGED state
       ELSE IF node.type = "send_message"
       THEN /\ UNCHANGED <<service_vars, nodes>>
            /\ run_return(after_node(loc, run_send_message(node, loc.slots)))
       ELSE IF node.type = "call_service"
       THEN /\ call_service(node.action, node.input_from, payload, loc.slots)
            /\ run_return(after_node(loc,
                   run_call_service(node, payload, loc.slots,
                                    IF node.action \in ServiceActions
                                    THEN ret' ELSE Ret("None", NoId, <<>>),
                                    summaries_for(node.action, payload))))
       ELSE run_return(loc) /\ UNCHANGED <<service_vars, nodes>>

\* A call of run_flow with the state the caller kept.  The cards and
\* appends of a run are bounded where the call starts.
run_flow(event) ==
    /\ run.pc = "returned"
    /\ event.type = "contact_shared" => n_pending < MaxCards
    /\ run_pass(RunLocals(event, state))
    /\ UNCHANGED flow

\* The next pass of the loop of the call under way.
run_flow_loop ==
    /\ run.pc = "running"
    /\ run_pass(run)
    /\ UNCHANGED flow

\* A document with the nodes the run_flow tests go through (the start
\* router, the welcome message, the list, the card that ends in
\* awaiting_context with a pending_id slot) and a node that submits the
\* context.
TestedFlow ==
    FlowDoc({ "start_node", "nodes", "messages" }, "start",
      << GNode("start", "router",
               << GEdge("text", "command_start", NoState, "welcome", NoState),
                  GEdge("text", "command_list", NoState, "do_list", NoState),
                  GEdge("contact_shared", NoState, NoState, "receive_contact",
                        NoState) >>),
         [GNode("welcome", "send_message",
                << GEdge(NoState, NoState, NoState, "start", NoState) >>)
            EXCEPT !.message = "welcome"],
         [GNode("do_list", "call_service",
                << GEdge(NoState, NoState, "empty", "start", "list_empty"),
                   [GEdge(NoState, NoState, "has_results", "start", NoState)
                      EXCEPT !.send_contact_list = TRUE] >>)
            EXCEPT !.action = "list_contacts"],
         [GNode("receive_contact", "call_service",
                << [GEdge(NoState, NoState, "pending", "awaiting_context",
                          "awaiting_context_prompt")
                      EXCEPT !.set_slots = { "pending_id" }],
                   [GEdge(NoState, NoState, "duplicate", "start", "duplicate")
                      EXCEPT !.set_slots = { "person_id", "contact_name" }],
                   [GEdge(NoState, NoState, "invalid", "start", NoState)
                      EXCEPT !.message_from_result = TRUE] >>)
            EXCEPT !.action = "receive_contact_card",
                   !.input_from = "event.payload"],
         GNode("awaiting_context", "router",
               << GEdge("text", "pending_context_text", NoState,
                        "do_submit_context", NoState),
                  GEdge("contact_shared", NoState, NoState, "receive_contact",
                        NoState) >>),
         [GNode("do_submit_context", "call_service",
                << GEdge(NoState, NoState, "created", "start", "contact_created"),
                   GEdge(NoState, NoState, "pending_not_found", "start",
                         "pending_lost") >>)
            EXCEPT !.action = "submit_context", !.input_from = "pending",
                   !.clear_slots = { "pending_id" }] >>)

\* A document whose routers hand over to one another on a text event.
CyclicFlow ==
    FlowDoc({ "start_node", "nodes" }, "start",
      << GNode("start", "router",
               << GEdge("text", NoState, NoState, "hop", NoState),
                  GEdge("contact_shared", NoState, NoState, "receive_contact",
                        NoState) >>),
         GNode("hop", "router",
               << GEdge(NoState, NoState, NoState, "start", NoState) >>),
         [GNode("receive_contact", "call_service",
                << [GEdge(NoState, NoState, "pending", "hop", NoState)
                      EXCEPT !.set_slots = { "pending_id" }] >>)
            EXCEPT !.action = "receive_contact_card",
                   !.input_from = "event.payload"] >>)

\* The document of test_load_flow_invalid_start_node.
MissingStartDoc ==
    FlowDoc({ "start_node", "nodes" }, "missing",
            << GNode("start", "router", <<>>) >>)

\* A document with an edge to a node it does not have.
DanglingEdgeDoc ==
    FlowDoc({ "start_node", "nodes" }, "start",
            << GNode("start", "router",
                     << GEdge(NoState, NoState, NoState, "nowhere", NoState) >>) >>)

FlowDocs ==
    { TestedFlow, CyclicFlow, MissingStartDoc, DanglingEdgeDoc,
      FlowDoc({ "start_node" }, "start", <<>>),
      [TestedFlow EXCEPT !.keys = { "nodes" }] }

\* The documents run_flow is given: what load_flow returned.
Flows == { load_flow(doc) : doc \in FlowDocs } \ { FlowError }

\* A conversation at the start node with no slots, its service over an
\* empty in-memory repository, and one of the documents.
InitGraph ==
    /\ pending_id = NoId
    /\ pending_card = NoCard
    /\ n_pending = 0
    /\ n_persons = 0
    /\ n_appends = 0
    /\ call = Call("init", NoId, None)
    /\ ret = Ret("None", NoId, <<>>)
    /\ replaced = {}
    /\ consumed = {}
    /\ repo_accessed = FALSE
    /\ resolving = [c \in Callers |-> IdleCall]
    /\ returns = <<>>
    /\ n_resolves = 0
    /\ sequential = TRUE
    /\ pending_by_chat = <<>>
    /\ pending_add_context_by_chat = <<>>
    /\ pending_add_context_file = <<>>
    /\ added_by = <<>>
    /\ view_before = <<>>
    /\ backend = "memory"
    /\ nodes = <<>>
    /\ knows = <<>>
    /\ by_id = <<>>
    /\ order = <<>>
    /\ contact_names = <<>>
    /\ resolver = [present |-> FALSE, target |-> NoId]
    /\ listed_before = <<>>
    /\ machine = <<>>
    /\ session = <<>>
    /\ step = <<>>
    /\ flow \in Flows
    /\ state = [current_node_id |-> NoState, slots |-> <<>>]
    /\ run = [RunLocals(Event("None", "None", NoPayload), state)
                EXCEPT !.pc = "returned"]

NextGraph ==
    \/ \E event \in FlowEvents :
          /\ run_flow(event)
          /\ UNCHANGED <<identity_vars, webhook_vars, owners_vars, flow_vars>>
    \/ /\ run_flow_loop
       /\ UNCHANGED <<identity_vars, webhook_vars, owners_vars, flow_vars>>

\* The call under way is at a send_message or call_service node: its pass
\* runs the node and leaves the loop.
AtExecutingNode ==
    /\ run.pc = "running"
    /\ get_node(flow, run.current_id).type \in { "send_message", "call_service" }

\* A call under way runs on: the loop is sequential code of one thread.
\* Fairness is stated for the passes that stay in the loop, those at a
\* router.
SpecGraph ==
    /\ InitGraph
    /\ [][NextGraph]_vars
    /\ WF_vars(/\ ~AtExecutingNode
               /\ run_flow_loop
               /\ UNCHANGED <<identity_vars, webhook_vars, owners_vars,
                              flow_vars>>)

---------------------------------------------------------------------------
(* Helpers of the properties. *)

\* Everything the repository holds.
store == <<by_id, order, contact_names, nodes, knows>>

\* The card's trimmed name is non-empty.
HasName(card) == Truthy(strip(OrElse(card.name, <<>>)))

\* The text is non-empty once trimmed.
NonBlank(text) == Truthy(strip(OrElse(text, <<>>)))

\* How often person_id occurs in what list_contacts returns.
Listed(pid) ==
    Cardinality({ i \in 1..Len(list_contacts_result) :
                     list_contacts_result[i].person_id = pid })

\* What list_contacts returns, without the entries of person_id.
ListedOthers(pid) ==
    LET Other(summary) == summary.person_id # pid
    IN SelectSeq(list_contacts_result, Other)

\* The id is one that submit_context generated for a new Person.
IsNewPersonId(pid) == pid > PersonBase /\ pid < CtxBase

\* The Person records (in-memory) or Person nodes (graph) with this id.
RecordsWithId(pid) ==
    IF backend = "memory"
    THEN Cardinality({ i \in 1..Len(by_id) : by_id[i].id = pid })
    ELSE Cardinality({ i \in 1..Len(nodes) : nodes[i].id = pid })

\* The last step was submit_context and it returned ContactCreated.
JustCreated == call.op = "submit_context" /\ ret.kind = "ContactCreated"

\* The last step was receive_contact_card and it returned PendingContact.
JustPending == call.op = "receive_contact_card" /\ ret.kind = "PendingContact"

\* The contact the last ContactCreated names is listed once, under the
\* name the result carries.
CreatedIsListed ==
    /\ Listed(ret.id) = 1
    /\ \A i \in 1..Len(list_contacts_result) :
          list_contacts_result[i].person_id = ret.id
          => list_contacts_result[i].name = ret.name

\* What list_contacts returns besides the contact the last result names.
ListedOthersOfCreated == ListedOthers(ret.id)

\* The id of the last call is no longer accepted, whatever the text.
LastIdRejected ==
    \A text \in Texts :
        submit_result(call.id, text) = Ret("PendingNotFound", call.id, <<>>)

\* The Person records with the id generated for the last submit_context.
GeneratedRecords == RecordsWithId(PersonBase + n_persons)

\* The Person records with the id the last result names.
ResultRecords == RecordsWithId(ret.id)

\* The last step linked the card to an existing person.
JustLinked == JustCreated /\ ~IsNewPersonId(ret.id)

\* The stored contact and the card have the same normalized phone.
SamePhone(person, card) ==
    /\ Truthy(person.phone_number)
    /\ Truthy(card.phone_number)
    /\ normalize_phone(card.phone_number) # None
    /\ normalize_phone(person.phone_number) = normalize_phone(card.phone_number)

\* Some stored contact has the card's normalized phone.
PhoneStored(card) ==
    LET stored == repo_list_all
    IN \E i \in 1..Len(stored) : SamePhone(stored[i], card)

---------------------------------------------------------------------------
(* C1: a card with a non-empty trimmed name and no duplicate in the        *)
(* repository is answered Pending(pending_id, trimmed name); submit_context *)
(* with that id and a non-blank text then answers Created; and the created *)
(* contact is in list_contacts() exactly once.                             *)

C1_CardThenContextCreatesListedContact ==
    /\ \A card \in Cards :
          (HasName(card) /\ repo_find_duplicate(card) = NoPerson)
          => /\ receive_result(card).kind = "PendingContact"
             /\ receive_result(card).name = strip(card.name)
    /\ JustPending =>
          \A text \in ValidTexts :
              submit_result(ret.id, text).kind = "ContactCreated"
    /\ JustCreated => Listed(ret.id) = 1

---------------------------------------------------------------------------
(* C2: replacement.  A Pending returned while another pending id is held   *)
(* carries a different id; submit_context with a replaced id answers       *)
(* PendingNotFound and stores nothing; and when the held id is then        *)
(* submitted with a valid text, the held (second) card's contact is stored *)
(* and no other stored contact appears, disappears or changes.             *)

C2_Replacement ==
    [][ /\ ( /\ call'.op = "receive_contact_card"
             /\ ret'.kind = "PendingContact"
             /\ pending_id # NoId )
           => (ret'.id # pending_id /\ pending_id \in replaced')
        /\ (call'.op = "submit_context" /\ call'.id \in replaced)
           => ( /\ ret' = Ret("PendingNotFound", call'.id, <<>>)
                /\ UNCHANGED store )
        /\ ( /\ call'.op = "submit_context"
             /\ ret'.kind = "ContactCreated"
             /\ replaced # {} )
           => ( /\ call'.id = pending_id
                /\ ret'.name = strip(pending_card.name)
                /\ CreatedIsListed'
                /\ ListedOthersOfCreated' = ListedOthers(ret'.id) )
      ]_vars

---------------------------------------------------------------------------
(* C3: single use.  Once submit_context(p, text) has returned Created,     *)
(* every later submit_context(p, any text) returns PendingNotFound(p) and  *)
(* leaves the repository as it is; each Created consumes an id that no     *)
(* earlier Created consumed.                                               *)

C3_SingleUse ==
    [][ /\ (call'.op = "submit_context" /\ call'.id \in consumed)
           => ( /\ ret' = Ret("PendingNotFound", call'.id, <<>>)
                /\ UNCHANGED store )
        /\ (call'.op = "submit_context" /\ ret'.kind = "ContactCreated")
           => ( /\ call'.id \notin consumed
                /\ call'.id \in consumed'
                /\ LastIdRejected' )
      ]_vars

\* A consumed id was submitted again, with a valid text.
C3_Witness ==
    /\ call.op = "submit_context"
    /\ call.id \in consumed
    /\ call.text \in ValidTexts
    /\ ret.kind = "PendingNotFound"

---------------------------------------------------------------------------
(* C4: every submit_context made with the held pending id leaves the       *)
(* engine without a pending card, whether it returns Created or            *)
(* PendingNotFound (validation failure).                                   *)

C4_SubmitAlwaysClearsPending ==
    [][ ( /\ call'.op = "submit_context"
          /\ pending_id # NoId
          /\ call'.id = pending_id )
        => (pending_id' = NoId /\ pending_card' = NoCard)
      ]_vars

---------------------------------------------------------------------------
(* C5: while a contact with phone P is stored, every card whose phone      *)
(* normalizes to the same value as P is answered Duplicate, and a          *)
(* receive_contact_card answered Duplicate leaves the stored contacts as   *)
(* they are.  The cards are tried in each state that follows a             *)
(* receive_contact_card call (the call leaves the repository as it is, and *)
(* the card with the blank name can be sent in every state).  As stated    *)
(* (whatever the card's name):                                             *)

C5_SamePhoneIsDuplicate ==
    /\ [](call.op = "receive_contact_card" =>
             \A card \in Cards :
                 PhoneStored(card) => receive_result(card).kind = "Duplicate")
    /\ [][ (call'.op = "receive_contact_card" /\ ret'.kind = "Duplicate")
           => UNCHANGED store ]_vars

(* C5, for the cards the engine looks at: a card with a blank name is      *)
(* answered Invalid before the repository is searched.                     *)

C5_SamePhoneAndNameIsDuplicate ==
    /\ [](call.op = "receive_contact_card" =>
             \A card \in Cards :
                 (HasName(card) /\ PhoneStored(card))
                 => receive_result(card).kind = "Duplicate")
    /\ [][ (call'.op = "receive_contact_card" /\ ret'.kind = "Duplicate")
           => UNCHANGED store ]_vars

\* A card was answered Duplicate of a stored contact that has a phone and
\* no external id: a match by phone.
C5_Witness ==
    /\ call.op = "receive_contact_card"
    /\ ret.kind = "Duplicate"
    /\ repo_get_by_id(ret.id).phone_number = <<"+", "1", "2">>
    /\ repo_get_by_id(ret.id).external_id = None

---------------------------------------------------------------------------
(* C6: linking.  When the resolver returns person id X for the pending     *)
(* card's external id, submit_context returns Created with person_id = X,  *)
(* not a generated id; no Person record is added; and afterwards exactly   *)
(* one Person record with id X exists.                                     *)

C6_LinkingReusesThePerson ==
    [][ ( /\ call'.op = "submit_context"
          /\ ret'.kind = "ContactCreated"
          /\ link_to_existing_id(pending_card) # NoId )
        => ( /\ ret'.id = link_to_existing_id(pending_card)
             /\ ~IsNewPersonId(ret'.id)
             /\ GeneratedRecords' = 0
             /\ ResultRecords' = 1 )
      ]_vars

---------------------------------------------------------------------------
(* C7: when submit_context links to an existing person X that the owner's  *)
(* repository shows, get_contact(X) and list_contacts() show X with the    *)
(* trimmed text just submitted as its context.                             *)

C7_LinkAttachesTheContext ==
    (JustLinked /\ repo_get_by_id(ret.id) # NoPerson)
    => /\ get_contact_result(ret.id).context = strip(call.text)
       /\ \A i \in 1..Len(list_contacts_result) :
             list_contacts_result[i].person_id = ret.id
             => list_contacts_result[i].context = strip(call.text)

---------------------------------------------------------------------------
(* C8: receive_contact_card (whatever it returns), a submit_context that   *)
(* returns PendingNotFound, list_contacts, search_contacts and get_contact *)
(* leave the repository as it is; the set of stored contacts changes only  *)
(* in a step where submit_context returns Created.                         *)

C8_StoreChangesOnlyOnCreated ==
    [][ /\ ( \/ call'.op \in { "receive_contact_card", "list_contacts",
                              "search_contacts", "get_contact" }
             \/ (call'.op = "submit_context" /\ ret'.kind = "PendingNotFound") )
           => UNCHANGED store
        /\ StoredIds' # StoredIds
           => (call'.op = "submit_context" /\ ret'.kind = "ContactCreated")
      ]_vars

\* A valid card is pending, a submit_context was answered PendingNotFound,
\* and nothing is stored.
C8_Witness ==
    /\ call.op = "submit_context"
    /\ ret.kind = "PendingNotFound"
    /\ pending_id # NoId
    /\ StoredIds = {}
    /\ n_persons = 0

---------------------------------------------------------------------------
(* C9: submit_context returns PendingNotFound carrying the id it was       *)
(* given, and leaves the repository as it is, when no pending card exists, *)
(* when the id differs from the held one, and when the trimmed text is     *)
(* empty.                                                                  *)

C9_PendingNotFoundCases ==
    [][ ( /\ call'.op = "submit_context"
          /\ \/ pending_id = NoId
             \/ call'.id # pending_id
             \/ ~NonBlank(call'.text) )
        => ( /\ ret' = Ret("PendingNotFound", call'.id, <<>>)
             /\ UNCHANGED store )
      ]_vars

\* The held id was submitted with a blank text.
C9_Witness ==
    /\ call.op = "submit_context"
    /\ pending_id # NoId
    /\ call.id = pending_id
    /\ call.text = <<" ">>
    /\ ret = Ret("PendingNotFound", pending_id, <<>>)

---------------------------------------------------------------------------
(* C10: a pending card has no expiry.  While an id is held,                *)
(* submit_context(id, valid text) returns Created; and the held id stops   *)
(* being held only in a receive_contact_card that returns a new Pending or *)
(* in a submit_context of that id that returns Created: never in           *)
(* list_contacts, search_contacts, get_contact, add_context, or a          *)
(* receive_contact_card that returns Duplicate or Invalid.                 *)

C10_PendingHasNoExpiry ==
    /\ [](pending_id # NoId =>
             \A text \in ValidTexts :
                 submit_result(pending_id, text).kind = "ContactCreated")
    /\ [][ (pending_id # NoId /\ pending_id' # pending_id)
           => \/ (call'.op = "receive_contact_card" /\ ret'.kind = "PendingContact")
              \/ ( /\ call'.op = "submit_context"
                   /\ call'.id = pending_id
                   /\ ret'.kind = "ContactCreated" )
         ]_vars

\* An add_context succeeded while a card was pending.
C10_Witness ==
    /\ pending_id # NoId
    /\ call.op = "add_context"
    /\ ret.kind = "AddContextSuccess"

---------------------------------------------------------------------------
(* C11: a card (with a name) is answered Duplicate, carrying the id and    *)
(* the stored name of a stored contact that has the card's normalized      *)
(* phone or its external id, whenever such a contact is stored; when no    *)
(* stored contact has its phone or its external id the card is answered    *)
(* Pending, whatever names are stored.                                     *)

\* The stored contact has the card's external id.
SameExternalId(person, card) ==
    /\ Truthy(normalize_telegram_id(card.telegram_user_id))
    /\ person.external_id = normalize_telegram_id(card.telegram_user_id)

\* The indexes of the stored contacts that have the card's phone or
\* external id.
Matches(card) ==
    LET stored == repo_list_all
    IN { i \in 1..Len(stored) :
           \/ SamePhone(stored[i], card)
           \/ SameExternalId(stored[i], card) }

---------------------------------------------------------------------------
(* C12: receive_contact_card returns Invalid exactly when the card's       *)
(* trimmed name is empty, and a receive_contact_card that returns Invalid  *)
(* leaves the pending card and the repository as they are.                 *)

\* The cards, and cards with no name, an empty name and a name of white
\* space only.
NameProbes ==
    Cards \cup
    { [name |-> n, phone_number |-> <<"+", "1", "2">>, telegram_user_id |-> <<"7">>] :
        n \in { None, <<>>, <<" ", "\n">>, <<"\n", "C", " ">> } }

\* The probes are tried in each state that follows a receive_contact_card
\* call.
C12_InvalidIffBlankName ==
    /\ [](call.op = "receive_contact_card" =>
             \A card \in NameProbes :
                 receive_result(card).kind = "Invalid" <=> ~HasName(card))
    /\ [][ (call'.op = "receive_contact_card" /\ ret'.kind = "Invalid")
           => UNCHANGED <<pending_id, pending_card, store>> ]_vars

\* A card was answered Invalid while another card was pending and a
\* contact was stored.
C12_Witness ==
    /\ call.op = "receive_contact_card"
    /\ ret.kind = "Invalid"
    /\ pending_id # NoId
    /\ StoredIds # {}

---------------------------------------------------------------------------
(* C13: when a card's phone matches a stored contact A and its external id *)
(* matches another stored contact B, find_duplicate returns a contact that *)
(* has the card's phone (A), in whatever order A and B were stored.        *)

\* The ids of the stored contacts that have the card's phone.
PhoneMatchIds(card) ==
    { repo_list_all[i].id : i \in { j \in 1..Len(repo_list_all) :
                                       SamePhone(repo_list_all[j], card) } }

\* The ids of the stored contacts that have the card's external id.
ExternalIdMatchIds(card) ==
    { repo_list_all[i].id : i \in { j \in 1..Len(repo_list_all) :
                                       SameExternalId(repo_list_all[j], card) } }

C13_PhoneBeforeExternalId ==
    \A card \in Cards :
        ( /\ PhoneMatchIds(card) # {}
          /\ ExternalIdMatchIds(card) \ PhoneMatchIds(card) # {} )
        => /\ repo_find_duplicate(card).id \in PhoneMatchIds(card)
           /\ receive_result(card).kind = "Duplicate"
           /\ receive_result(card).id \in PhoneMatchIds(card)

---------------------------------------------------------------------------
(* C14: after add_context(id, text) returns Success, get_contact(id) shows *)
(* the whole previous description, then a visible separator, then the      *)
(* trimmed new text; the contact's id, name and phone are as before; and   *)
(* every other contact is as before.                                       *)

\* What list_contacts returned before the last call, without the entries of
\* person_id.
ListedOthersBefore(pid) ==
    LET Other(summary) == summary.person_id # pid
    IN SelectSeq(listed_before, Other)

\* What list_contacts returned for person_id before the last call.
ListedBefore(pid) ==
    LET Same(summary) == summary.person_id = pid
    IN SelectSeq(listed_before, Same)

---------------------------------------------------------------------------
(* C15: add_context (with a non-blank text) on a person id that is not a   *)
(* contact of the owner returns NotFound carrying that id, and leaves the  *)
(* repository as it is.                                                    *)

\* Ids that may name no contact of the owner: one never issued, another
\* user's, the owner's own.
ForeignIds == { WrongId, ExistingId, OwnerId }

\* The foreign ids are tried in each state that follows an add_context
\* call (one with a blank text can be made in every state and changes
\* nothing).
C15_AddContextUnknownId ==
    /\ [](call.op = "add_context" =>
             \A pid \in ForeignIds \ StoredIds, text \in AppendTexts :
                 NonBlank(text) =>
                     add_context_result(pid, text) =
                         Ret("AddContextNotFound", pid, <<>>))
    /\ []( ( /\ call.op = "add_context"
             /\ NonBlank(call.text)
             /\ ListedBefore(call.id) = <<>> )
           => /\ ret = Ret("AddContextNotFound", call.id, <<>>)
              /\ list_contacts_result = listed_before )
    /\ [][ (call'.op = "add_context" /\ ret'.kind = "AddContextNotFound")
           => UNCHANGED store ]_vars

\* add_context was answered NotFound while a contact was stored.
C15_Witness ==
    /\ call.op = "add_context"
    /\ ret = Ret("AddContextNotFound", WrongId, <<>>)
    /\ Len(list_contacts_result) >= 1

---------------------------------------------------------------------------
(* C16: add_context with an empty or white-space-only text returns         *)
(* Invalid whether or not person_id names a contact, without reaching the  *)
(* repository: nothing is read from it and nothing in it changes.          *)

BlankTexts == { None, <<>>, <<" ">>, <<" ", "\n">> }

\* The ids and the blank texts are tried in each state that follows an
\* add_context call.
C16_AddContextBlankText ==
    /\ [](call.op = "add_context" =>
             \A pid \in PersonIds \cup ForeignIds, text \in BlankTexts :
                 add_context_result(pid, text) =
                     Ret("AddContextInvalid", NoId, <<>>))
    /\ []( (call.op = "add_context" /\ ~NonBlank(call.text))
           => /\ ret = Ret("AddContextInvalid", NoId, <<>>)
              /\ ~repo_accessed
              /\ list_contacts_result = listed_before )
    /\ [][ (call'.op = "add_context" /\ ret'.kind = "AddContextInvalid")
           => UNCHANGED store ]_vars

\* add_context with a blank text was answered Invalid for a stored contact.
C16_Witness ==
    /\ call.op = "add_context"
    /\ call.text = <<" ">>
    /\ call.id \in StoredIds
    /\ ret.kind = "AddContextInvalid"
    /\ ~repo_accessed

---------------------------------------------------------------------------
(* C17: search_contacts(keyword) returns, in list order, exactly the       *)
(* stored contacts whose context description has the trimmed keyword as a  *)
(* substring, letters compared without regard to case; for an empty or     *)
(* white-space-only keyword it returns the empty list, whatever is stored. *)

\* Two characters are the same letter, upper or lower case.
SameLetter(a, b) ==
    \/ a = b
    \/ {a, b} \in { {"x", "X"}, {"y", "Y"} }

\* The needle occurs in the text, case aside.
Occurs(needle, text) ==
    \E i \in 0..(Len(text) - Len(needle)) :
        \A j \in 1..Len(needle) : SameLetter(text[i + j], needle[j])

KeywordProbes ==
    Keywords \cup
    { None, <<>>, <<"\n", " ">>, <<"Y">>, <<"y", "\n">>, <<"z">>, <<"p">>, <<"P">>,
      <<"Y", "\n", "\n", "-", " ", "z">>, <<"y", "z">>, <<"-">> }

---------------------------------------------------------------------------
(* The identity layer: claims over SpecIdentity. *)

\* The telegram ids the callers' external ids come to.
ResolvedIds == { strip(e) : e \in ExternalIds } \ { <<>> }

\* The returns, in order, of the calls made for this telegram id.
ReturnsFor(tid) == SelectSeq(returns, LAMBDA r : r.telegram_id = tid)

\* C18: get_or_create_user_id is stable.  When the calls follow one
\* another, all the calls for one (channel, external id) return the same
\* person id, the first of them returns is_new = true and every later one
\* false, and calls for different external ids return different person ids.
C18_ResolveIsStable ==
    sequential =>
        /\ \A i, j \in 1..Len(returns) :
              (returns[i].telegram_id = returns[j].telegram_id)
                  <=> (returns[i].user_id = returns[j].user_id)
        /\ \A tid \in ResolvedIds :
              \A k \in 1..Len(ReturnsFor(tid)) :
                  ReturnsFor(tid)[k].is_new <=> (k = 1)

\* C19: reconciliation.  A call that finds a Person with its external id
\* returns that Person's id and leaves it registered; it returns
\* is_new = true when the Person was not registered yet (it was only
\* somebody's contact) and false when it already was, as on every later
\* call.
C19_Reconciliation ==
    [][\A c \in Callers :
          (resolving[c].pc = "set_registered" /\ resolving'[c].pc = "idle") =>
              LET p == NodeById(nodes, resolving[c].record)
                  r == returns'[Len(returns')]
              IN /\ r.user_id = p.id
                 /\ NodeById(nodes', p.id).registered
                 /\ r.is_new = ~p.registered]_vars

\* No call is under way.
Quiescent == \A c \in Callers : resolving[c].pc = "idle"

\* The Persons carrying this telegram id.
PersonsWith(tid) == { i \in 1..Len(nodes) : nodes[i].telegram_id = tid }

\* The telegram id was in nobody's graph before the calls: whoever carries
\* it was created by get_or_create_user_id.
PreviouslyUnseen(tid) == \A i \in PersonsWith(tid) : nodes[i].id > UserBase

\* A call for this telegram id went through the session: it returned, or
\* its CREATE was refused.
Resolved(tid) ==
    \/ ReturnsFor(tid) # <<>>
    \/ \E c \in Callers : /\ resolving[c].telegram_id = tid
                          /\ resolving[c].outcome = "ConstraintError"

\* C20: however the calls for one previously unseen external id
\* interleave, once they are over exactly one Person carries that external
\* id, it is registered, and every call that returned a person id returned
\* the id of that Person.
C20_OneSurvivingPerson ==
    \A tid \in ResolvedIds :
        (Quiescent /\ PreviouslyUnseen(tid) /\ Resolved(tid)) =>
            /\ Cardinality(PersonsWith(tid)) = 1
            /\ \A i \in PersonsWith(tid) :
                  /\ nodes[i].registered
                  /\ \A k \in 1..Len(ReturnsFor(tid)) :
                        ReturnsFor(tid)[k].user_id = nodes[i].id

\* Two calls for the unseen id "8" overlapped: one created the Person and
\* returned, the CREATE of the other was refused.
C20_Witness ==
    /\ Quiescent
    /\ ~sequential
    /\ PreviouslyUnseen(<<"8">>)
    /\ ReturnsFor(<<"8">>) # <<>>
    /\ \E c \in Callers : /\ resolving[c].telegram_id = <<"8">>
                          /\ resolving[c].outcome = "ConstraintError"

---------------------------------------------------------------------------
(* The Telegram webhook: claims over SpecWebhook. *)

\* C21: pending cards are held per conversation.  Every pending id the
\* webhook submits is the one the engine answered to the last card of the
\* chat the text came from; so a non-blank text sent in a chat whose card
\* is pending creates that chat's contact, whatever cards the owner's other
\* chats have sent in between.
C21_PendingPerConversation ==
    [][ (call'.op = "submit_context" /\ NonBlank(call'.text))
        => /\ ret'.kind = "ContactCreated"
           /\ ret'.id \in StoredIds' ]_vars

---------------------------------------------------------------------------
(* Owner scoping of the Neo4j repository: claims over SpecOwners. *)

\* The person ids stored through a user's repository.
StoredBy(user_id) == DictGet(added_by, user_id, {})

\* C22: contacts are scoped per owner.  No operation made through one
\* owner's repository changes what the other owner's list_all, get_by_id or
\* find_duplicate return; and every person a repository returns by id or
\* reports as a duplicate was stored through that repository, so a contact
\* stored by A alone (even with B's card's phone) is absent for B.
C22_OwnerScoped ==
    \A user_id \in Owners :
       /\ \A pid \in AskedIds :
             neo4j_get_by_id(user_id, pid) # NoPerson
             => pid \in StoredBy(user_id)
       /\ \A card \in OwnerCards :
             neo4j_find_duplicate(user_id, card) \notin { NoPerson, Raised }
             => neo4j_find_duplicate(user_id, card).id \in StoredBy(user_id)
       /\ \A i \in 1..Len(neo4j_list_all(user_id)) :
             neo4j_list_all(user_id)[i] # Raised
             => neo4j_list_all(user_id)[i].id \in StoredBy(user_id)
       /\ (call.op # "init" /\ call.user_id # user_id)
          => /\ neo4j_list_all(user_id) = view_before[user_id].list
             /\ \A card \in OwnerCards :
                   neo4j_find_duplicate(user_id, card)
                   = view_before[user_id].dup[card]
             /\ \A pid \in AskedIds :
                   neo4j_get_by_id(user_id, pid)
                   = IF pid \in DOMAIN view_before[user_id].get
                     THEN view_before[user_id].get[pid] ELSE NoPerson

\* Both users stored a contact with the phone +12, user_a last: each
\* repository answers its own person for a card with that phone.
C22_Witness ==
    /\ call.op = "add"
    /\ call.user_id = OwnerId
    /\ LET card == [name |-> <<"A">>, phone_number |-> <<"+", "1", "2">>,
                    telegram_user_id |-> None]
           a == neo4j_find_duplicate(OwnerId, card)
           b == neo4j_find_duplicate(OwnerB, card)
       IN /\ a.id \in StoredBy(OwnerId) \ StoredBy(OwnerB)
          /\ b.id \in StoredBy(OwnerB) \ StoredBy(OwnerId)
          /\ a.phone_number = b.phone_number
          /\ neo4j_get_by_id(OwnerB, a.id) = NoPerson
          /\ Len(neo4j_list_all(OwnerB)) = 1

---------------------------------------------------------------------------
(* Account profile and lookup: claims over SpecProfile. *)

\* The Persons carrying a telegram id.
Carrying(telegram_id) ==
    { nodes[i].id : i \in { j \in 1..Len(nodes) :
                              nodes[j].telegram_id = telegram_id } }

\* C23: lookup_existing is read-only: it creates and modifies no Person; for
\* the telegram channel and an external id some Person carries it returns
\* the id of such a Person; for an empty channel, an empty external id or an
\* id nobody carries it returns absent.
C23_LookupIsReadOnly ==
    [][ call'.op = "lookup_existing"
        => LET ch == strip(OrElse(call'.channel, <<>>))
               eid == strip(OrElse(call'.external_id, <<>>))
           IN /\ nodes' = nodes
              /\ knows' = knows
              /\ (ch = CHANNEL_TELEGRAM /\ Carrying(eid) # {} /\ eid # <<>>)
                 => ret'.id \in Carrying(eid)
              /\ (ch = <<>> \/ eid = <<>> \/ Carrying(eid) = {})
                 => ret'.id = NoId ]_vars

\* A lookup found the owner by a padded id, and the graph is as it began.
C23_Witness ==
    /\ call.op = "lookup_existing"
    /\ call.external_id = <<" ", "9", " ">>
    /\ ret.id = OwnerId
    /\ nodes \in ProfileGraphs

\* The stored profile of a Person.
StoredProfile(p) ==
    [name |-> p.name, bio |-> p.bio, phone_number |-> p.phone_number]

\* C24: update_profile overwrites only the fields that are provided: after
\* the call every Person's name, bio and phone differ from before only where
\* the field was passed, the Person is the registered one named, and
\* nothing else of any node changes; a call with no field changes nothing.
C24_OnlyProvidedFields ==
    [][ call'.op = "update_account_profile"
        => /\ Len(nodes') = Len(nodes)
           /\ \A i \in 1..Len(nodes) :
                 /\ call'.name = None => nodes'[i].name = nodes[i].name
                 /\ call'.bio = None => nodes'[i].bio = nodes[i].bio
                 /\ call'.phone_number = None
                    => nodes'[i].phone_number = nodes[i].phone_number
                 /\ (nodes[i].id # call'.id \/ ~nodes[i].registered)
                    => nodes'[i] = nodes[i]
                 /\ nodes'[i] = [nodes[i] EXCEPT
                                    !.name = nodes'[i].name,
                                    !.bio = nodes'[i].bio,
                                    !.phone_number = nodes'[i].phone_number]
           /\ (call'.name = None /\ call'.bio = None
               /\ call'.phone_number = None) => nodes' = nodes ]_vars

\* Only the bio was passed: the owner has it, and still the name of the
\* signup.
C24_Witness ==
    /\ call.op = "update_account_profile"
    /\ call.id = OwnerId
    /\ call.name = None
    /\ call.phone_number = None
    /\ call.bio = <<" ", "b">>
    /\ nodes[1].bio = <<"b">>
    /\ nodes[1].name = <<"O">>

\* C25: update_profile fails closed on over-length input: a trimmed name
\* longer than 500 characters or a trimmed bio longer than 2000 makes the
\* call fail with a validation error and leaves every node as it was, the
\* other fields of the call included; a name or bio within the limit is
\* never cut.
C25_OverLengthFailsClosed ==
    [][ call'.op = "update_account_profile"
        => LET name == strip(OrElse(call'.name, <<>>))
               bio == strip(OrElse(call'.bio, <<>>))
           IN /\ (Len(name) > 500 \/ Len(bio) > 2000)
                 => /\ ret'.kind = "ValueError"
                    /\ nodes' = nodes
              /\ \A i \in 1..Len(nodes) :
                    /\ nodes'[i].name \in { nodes[i].name, name }
                    /\ nodes'[i].bio \in { nodes[i].bio, bio } ]_vars

\* A call with a valid name and phone and a bio of 2001 characters failed,
\* and the owner still has the name of the signup and no phone.
C25_Witness ==
    /\ call.op = "update_account_profile"
    /\ call.id = OwnerId
    /\ call.name = <<" ", "N", " ">>
    /\ call.phone_number = <<" ", "+", "1", " ", "2">>
    /\ Len(strip(call.bio)) = 2001
    /\ ret.kind = "ValueError"
    /\ nodes[1].name = <<"O">>
    /\ nodes[1].phone_number = None

---------------------------------------------------------------------------
(* The flow runner. *)

\* A call of run_xstate_flow has returned.
StepReturned == step.pc = "returned" /\ step.steps > 0

\* The event of the call has no symbol, or the table has no edge for the
\* state the call was given and the symbol.
NothingToDo ==
    \/ event_to_xstate(step.event) = NoState
    \/ transition(machine, step.state_value, event_to_xstate(step.event)) = NoState

\* C26: a step whose event has no event symbol, or whose (state, symbol) has
\* no edge in the table, returns no actions, the state it was given and a
\* slot map equal to the one it was given, and calls no ContactService
\* operation.
C26_NoOpWithoutEdge ==
    (StepReturned /\ NothingToDo)
        => /\ step.all_actions = <<>>
           /\ step.current = step.state_value
           /\ step.slots = step.context
           /\ step.calls = 0
           /\ step.steps = 1
           /\ session = [state_value |-> step.state_value,
                         slots |-> step.context]

\* Reached: an event the state it arrives in has no edge for, while slots
\* are set.
C26_Witness ==
    /\ StepReturned
    /\ NothingToDo
    /\ event_to_xstate(step.event) # NoState
    /\ step.context # <<>>
    /\ step.state_value # "idle"

\* The loop of the call ended after an effect: the outcome of the effect
\* has no edge from the state just entered, or the effect had no outcome.
OutcomeWithoutEdge ==
    \/ step.exit = "no_edge" /\ step.steps > 1
    \/ step.exit = "no_outcome"

\* C27: when an effect returns an outcome that has no edge from the state
\* just entered, or no outcome, the step returns an empty action list and
\* the state it started in, not the relay state with the actions produced.
C27_DegradesToNoOp ==
    (StepReturned /\ OutcomeWithoutEdge)
        => /\ step.all_actions = <<>>
           /\ step.current = step.state_value

\* The loop of the call ended because max_steps effects had run, the last
\* of them with an outcome that was still to be followed.
LimitReached == step.exit = "limit" /\ step.steps = max_steps

\* C28: a chain of relay states that reaches the step limit without
\* arriving at a waiting state is a fatal configuration error: the call
\* signals an error and does not return a state and actions.
C28_StepLimitIsFatal == LimitReached => step.pc # "returned"

\* C29: whenever a step returns the idle state, the transient slots
\* (pending_id, person_id, contact_name, search_pending) are absent from
\* the slot map it returns.
C29_IdleHasNoTransientSlots ==
    (StepReturned /\ step.current = "idle")
        => DOMAIN step.slots \cap TransientSlots = {}

\* The call was given the idle state and a shared card, and the
\* ContactService answered its receive_contact_card with a PendingContact.
PendingFromIdle ==
    /\ StepReturned
    /\ step.state_value = "idle"
    /\ step.event.type = "contact_shared"
    /\ step.calls = 1
    /\ call.op = "receive_contact_card"
    /\ ret.kind = "PendingContact"

\* C30: from idle, a contact_shared event for which the service returns a
\* PendingContact ends the step in awaiting_context, with the pending_id
\* slot set to the pending id the service returned and at least one
\* SendMessage among the actions.
C30_PendingCardAwaitsContext ==
    PendingFromIdle
        => /\ step.current = "awaiting_context"
           /\ "pending_id" \in DOMAIN step.slots
           /\ step.slots["pending_id"] = ret.id
           /\ \E i \in 1..Len(step.all_actions) :
                  step.all_actions[i].type = "SendMessage"
           /\ session.state_value = "awaiting_context"

\* Reached: a second card is taken as pending from idle, after the first
\* one was lost to a blank text.
C30_Witness ==
    /\ PendingFromIdle
    /\ ret.id = 2
    /\ pending_id = 2

\* The call was given the idle state and the start command.
StartFromIdle ==
    /\ StepReturned
    /\ step.state_value = "idle"
    /\ step.event.type = "text"
    /\ step.event.subtype = "command_start"

\* C31: from idle, the start command produces at least one SendMessage (the
\* welcome text), passes through the welcome relay state and ends the step
\* back in idle with the slot map unchanged.
C31_StartWelcomesAndReturnsToIdle ==
    StartFromIdle
        => /\ \E i \in 1..Len(step.all_actions) :
                 /\ step.all_actions[i].type = "SendMessage"
                 /\ step.all_actions[i].text.message = "welcome"
                 /\ step.all_actions[i].keyboard = "welcome"
           /\ step.steps = 2
           /\ step.exit = "waiting"
           /\ step.current = "idle"
           /\ step.slots = step.context
           /\ session = [state_value |-> "idle", slots |-> step.context]

\* Reached: the start command arrives in idle while slots are set.
C31_Witness ==
    /\ StartFromIdle
    /\ step.context # <<>>
    /\ step.current = "idle"

\* A SendMessage is among the actions.
HasMessage(actions) ==
    \E i \in 1..Len(actions) : actions[i].type = "SendMessage"

\* The error answers of the ContactService, per relay state that asks it.
ErrorResults(state_value) ==
    IF state_value = "receive_contact"
    THEN { Ret("Invalid", NoId, <<>>), Ret("Duplicate", ExistingId, <<"B">>) }
    ELSE IF state_value = "do_submit_context"
    THEN { Ret("PendingNotFound", WrongId, <<>>) }
    ELSE IF state_value = "do_add_context"
    THEN { Ret("AddContextNotFound", WrongId, <<>>),
           Ret("AddContextInvalid", NoId, <<>>) }
    ELSE IF state_value \in { "prompt_add_context_for_contact",
                             "prompt_add_more_context" }
    THEN { Ret("None", NoId, <<>>) }
    ELSE {}

\* The service call of the step that has returned ended in an error answer,
\* or the button of the step named no contact that is stored.
StepHitError ==
    /\ StepReturned
    /\ \/ /\ step.calls = 1
          /\ \/ ret.kind \in { "Invalid", "Duplicate", "PendingNotFound",
                               "AddContextNotFound", "AddContextInvalid" }
             \/ call.op = "get_contact" /\ ret.kind = "None"
       \/ /\ step.event.type = "callback"
          /\ step.event.subtype = "person_id"
          /\ step.steps > 1
          /\ step.xevent = "NOT_FOUND"

\* C32: every error answer of the service reached from a user event
\* (Invalid and Duplicate from receive_contact_card, PendingNotFound from
\* submit_context, NotFound and Invalid from add_context, no contact for an
\* add-context button) emits a SendMessage in that step; the step returns.
C32_ErrorsAreAnswered ==
    /\ \A state_value \in { "receive_contact", "do_submit_context",
                            "do_add_context", "prompt_add_context_for_contact",
                            "prompt_add_more_context" } :
          \A result \in ErrorResults(state_value), pid \in ButtonIds :
             HasMessage(run_effect(state_value,
                                   Payload(None, None, None, None, pid),
                                   session.slots, result).actions)
    /\ StepHitError => HasMessage(step.all_actions)
    /\ step.pc \in { "running", "returned" }

\* Reached: a text arrives in awaiting_context, submit_context answers
\* PendingNotFound and the step has returned with its message.
C32_Witness ==
    /\ StepHitError
    /\ call.op = "submit_context"
    /\ ret.kind = "PendingNotFound"
    /\ step.state_value = "awaiting_context"

\* The initial state of the table is one of its states and every edge leads
\* to one of its states.
WellFormed(m) ==
    /\ m.initial \in m.states
    /\ \A e \in m.edges : e[3] \in m.states

\* C33: a transition table is validated when it is loaded: loading fails
\* whenever the initial state is not one of the table's states or an edge
\* targets a state that does not exist, so a flow-runner step only ever
\* uses a table that passes both checks.
C33_OnlyValidTablesAreUsed ==
    /\ \A config \in MachineConfigs :
          ~WellFormed(config) => load_machine(config) = LoadError
    /\ StepReturned => WellFormed(machine)

\* The positions of the actions that set or clear the key.
Touching(actions, k) ==
    { i \in 1..Len(actions) :
         \/ actions[i].type = "SetSlots" /\ k \in DOMAIN actions[i].slots
         \/ actions[i].type = "ClearSlots" /\ k \in actions[i].keys }

LastTouching(actions, k) ==
    CHOOSE i \in Touching(actions, k) : \A j \in Touching(actions, k) : j <= i

SlotKeys(actions) ==
    UNION { IF actions[i].type = "SetSlots" THEN DOMAIN actions[i].slots
            ELSE IF actions[i].type = "ClearSlots" THEN actions[i].keys
            ELSE {} : i \in 1..Len(actions) }

\* The slot map is the given one with the SetSlots and ClearSlots of the
\* list applied in order: a key the list never touches is as given, any
\* other key is what the last action touching it made of it.
IsAppliedInOrder(slots, given, actions) ==
    \A k \in DOMAIN given \cup DOMAIN slots \cup SlotKeys(actions) :
       IF Touching(actions, k) = {}
       THEN (k \in DOMAIN slots) = (k \in DOMAIN given)
            /\ (k \in DOMAIN given => slots[k] = given[k])
       ELSE LET a == actions[LastTouching(actions, k)] IN
            IF a.type = "SetSlots"
            THEN k \in DOMAIN slots /\ slots[k] = a.slots[k]
            ELSE k \notin DOMAIN slots

\* Lists that set a key, clear it and set it again.
SlotActionLists ==
    LET acts == { SetSlots([pending_id |-> 1]), ClearSlots({"pending_id"}),
                  SetSlots([pending_id |-> 2, person_id |-> PersonBase]),
                  SendMessage(format_message("welcome", None), "None") }
    IN { <<>> } \cup { <<a>> : a \in acts }
       \cup { <<a, b>> : a \in acts, b \in acts }
       \cup { <<a, b, c>> : a \in acts, b \in acts, c \in acts }

\* C34: the slot map a flow-runner step returns is the slot map it was
\* given with every SetSlots and ClearSlots of the returned action list
\* applied in the order produced (a later ClearSlots removes a key set
\* earlier, a later SetSlots restores it), and the map the caller passed
\* in is not changed by the call.
C34_SlotsFollowActions ==
    /\ StepReturned =>
          IsAppliedInOrder(step.slots, step.context, step.all_actions)
    /\ step.pc = "running" =>
          /\ session.slots = step.context
          /\ IsAppliedInOrder(step.slots, step.context, step.all_actions)
    /\ \A actions \in SlotActionLists :
          IsAppliedInOrder(apply_actions(session.slots, actions),
                           session.slots, actions)

\* Reached: a step given a pending_id slot returned a list that clears it
\* and then sets other slots, and the returned map has lost pending_id.
C34_Witness ==
    /\ StepReturned
    /\ "pending_id" \in DOMAIN step.context
    /\ \E i, j \in 1..Len(step.all_actions) :
          /\ i < j
          /\ step.all_actions[i].type = "ClearSlots"
          /\ "pending_id" \in step.all_actions[i].keys
          /\ step.all_actions[j].type = "SetSlots"
    /\ "pending_id" \notin DOMAIN step.slots
    /\ step.slots # step.context

\* C35: run_xstate_flow terminates for every transition table, event, slot
\* map and service behaviour, also on a table whose relay states form a
\* cycle: a call under way returns, after at most 50 transitions and at
\* most 50 effect executions.
C35_StepTerminates ==
    /\ [](step.steps <= 50 /\ step.effects <= 50)
    /\ (step.pc = "running" ~> step.pc = "returned")

\* Reached: on the cyclic table a call has returned after 50 transitions
\* and 50 effects.
C35_Witness ==
    /\ StepReturned
    /\ machine = CyclicMachine
    /\ step.steps = 50
    /\ step.effects = 50

\* The state a call started in: the one it was given, or the initial one.
StartState ==
    IF step.state_value = NoState THEN machine.initial ELSE step.state_value

\* C36: every flow-runner step that starts in a waiting state (idle,
\* awaiting_context, awaiting_search, awaiting_add_context) and is driven
\* by a service returning its declared results ends in a waiting state: no
\* step leaves the conversation parked in a relay state.
C36_StepsEndInWaitingState ==
    (StepReturned /\ StartState \in WAITING_STATES) =>
        /\ step.current \in WAITING_STATES
        /\ session.state_value \in WAITING_STATES

\* The session has a pending_id slot.
HasPendingSlot == "pending_id" \in DOMAIN session.slots

\* C37: for one conversation driving its own service, after every
\* flow-runner step the session's pending_id slot is present exactly when
\* the service holds a pending card, and then it is the id the service
\* holds; a step that clears the slot leaves no pending card alive.
C37_SlotMirrorsPending ==
    StepReturned =>
        /\ HasPendingSlot = (pending_id # NoId)
        /\ HasPendingSlot => session.slots.pending_id = pending_id

\* Two stored contacts of the owner with the same phone number, or with the
\* same external id.
SharePhone(p, q) == Truthy(p.phone_number) /\ p.phone_number = q.phone_number

ShareExternalId(p, q) == Truthy(p.external_id) /\ p.external_id = q.external_id

\* C38: after any sequence of receive_contact_card, submit_context and
\* add_context calls on one owner's service, no two stored contacts of that
\* owner carry the same phone number and no two carry the same external
\* id, also when the phone on the cards cannot be normalized.
C38_NoTwoContactsShareAKey ==
    LET stored == repo_list_all IN
    \A i, j \in 1..Len(stored) :
       i # j => /\ ~SharePhone(stored[i], stored[j])
                /\ ~ShareExternalId(stored[i], stored[j])

\* C39: whenever submit_context returns Created(person_id, name), a contact
\* with that person_id is stored for the owner: get_contact(person_id) is
\* present and list_contacts() contains it, also when the add was a link
\* to an existing person id (one the repository does not hold, or the
\* owner's own id).
C39_CreatedIsStored ==
    JustCreated =>
        /\ repo_get_by_id(ret.id) # NoPerson
        /\ \E i \in 1..Len(repo_list_all) : repo_list_all[i].id = ret.id

\* A run_flow call has returned.
RunReturned == run.pc = "returned"

\* C40: the node-graph runner run_flow terminates for every flow document
\* load_flow accepts and every event, also on a document whose router nodes
\* route to one another in a cycle, and it executes at most one
\* send_message or call_service node per step: a pass at such a node
\* returns, and a call under way returns or comes to such a node.
C40_RunFlowTerminates ==
    /\ [](run.executed <= 1)
    /\ [][AtExecutingNode => run'.pc = "returned"]_vars
    /\ (run.pc = "running" ~> (run.pc = "returned" \/ AtExecutingNode))

====
